---- MODULE Spec2Model ----
(***************************************************************************)
(* A model of the job bookkeeping, download worker, tile endpoints and     *)
(* mosaic builder of the satellite-imagery gateway.                        *)
(*                                                                         *)
(* One job is followed at a time.  The Redis store is the pair of keys     *)
(* job:status:{job_id} (jobStatus) and processing_job:{job_id} (procJob).  *)
(* A missing JSON key is the value None; a missing Redis key is Absent.    *)
(***************************************************************************)
EXTENDS Integers, Sequences, FiniteSets, TLC

VARIABLES
    jobStatus,    \* value under job:status:{job_id}, or Absent
    procJob,      \* value under processing_job:{job_id}, or AbsentJob
    nUrls,        \* len(urls) of the download job
    apiPc,        \* queue_download: "idle", "enqueued" (job queued), "done"
    wPc,          \* download_imagery: "idle", "gather", "returned", "aborted"
    tPc,          \* download_single per url: "wait", "fetch", "read", "ok", "err"
    tSeen,        \* download_single per url: the local `completed` (line 83)
    tAttempts,    \* per url: number of client.get calls started
    errors,       \* the shared `errors` list (url indices, in append order)
    returned,     \* the dict download_imagery returned, or NoResult
    cancelPc,     \* downloads cancel_job: "idle", "abort", "done"
    cancelSeen,   \* status_data.get("status") read by cancel_job
    cancelResp,   \* HTTP status code of the cancel_job response, 0 before
    jKind,        \* the task function the followed processing/mosaic job runs
    jPc,          \* position of that task: "none", "queued", ..., "returned", "raised"
    nScenes,      \* len(scene_ids)
    nBands,       \* len(bands) / len(required_bands)
    jIndex,       \* spectral index request: "builtin", "expression" or "unknown"
    jIter,        \* index of the next scene / band of the running loop
    jIterCount,   \* per-scene / per-band iterations started so far
    jFound,       \* len(scenes_data): scenes the catalog returned
    jGot,         \* len(mosaic_bands) / len(bands_data): bands with data
    jCancelReq,   \* a cancel request has written its record
    pcCancel,     \* ProcessingService.cancel_job: "idle", "read", "done"
    pcCancelSeen, \* the job ProcessingService.cancel_job read
    rqPc,         \* tile request: "request" before the handler ran, "done" after
    rqEndpoint,   \* the tile endpoint that answered, "none" before
    rqUrl,        \* get_scene_tile: the optional `url` parameter was given
    rqScene,      \* SearchService.get_scene: "found", "none" or "raise"
    rqSentinel,   \* "sentinel" in collection.lower() or "s2" in scene_id.upper()
    rqBands,      \* per requested band, what reading its tile (x, y, z) does
    rqRescale,    \* the `rescale` parameter: "none", "ok", "degenerate", "malformed"
    rqIfNoneMatch,\* the If-None-Match header, relative to the tile's ETag
    resp,         \* the HTTP response, NoResponse before
    pxValues,     \* one pixel of one band: per scene (caller order) its value,
                  \* or None when the read of that scene raised
    pxStrategy,   \* the `strategy` argument of create_imagery_mosaic
    pxIter,       \* index of the next scene of `for scene_bands in cog_urls`
    pxData,       \* the pixel in band_data, None while band_data is None
    pxPc,         \* "loop" or "done"
    agValues,     \* aggregation, one pixel of one band: its value in each scene read
    agMethod,     \* the aggregation_method argument
    agPath,       \* the function that aggregated: "aggregate_scenes" or "calculate_spectral_index"
    agOut,        \* the aggregated pixel (a Number record), NoNumber before / when no band
    agPc,         \* "stacked" before the aggregation, "done" after
    jFailedReads, \* band reads of the followed job that raised
    jError,       \* what the exception written with the failed status was about, "none" before
    jWritten,     \* the task wrote its output raster
    bdAssets,     \* band resolution: the keys of scene.assets
    bdBand,       \* the band name as the request spells it
    bdOut,        \* per component the asset key it resolved the band to, "notfound" or "pending"
    rcRaw,        \* rescaling, one pixel: its raw value in each of the three bands
    rcRange,      \* the rescale parameter parsed: <<min_val, max_val>>
    rcPath,       \* the tile path that rendered the pixel, "none" before
    rcOut,        \* the pixel's value in each band after rescaling
    rcAlpha,      \* the pixel's alpha, None where the path emits no alpha channel
    rcDivZero,    \* the rescaling divided by zero
    exNames,      \* eval_band_math: the names the expression refers to
    exAttribute,  \* the expression takes an attribute of an object (x.attr)
    exWellFormed, \* the expression is syntactically valid Python
    exResult,     \* "pending", "value" (eval returned) or "ValueError"
    exReached,    \* the names eval resolved to an object
    ddScheme,     \* download_from_url: parsed.scheme of image_url
    ddHost,       \* parsed.hostname as its sequence of labels, <<>> when the URL has none
    ddInfos,      \* what getaddrinfo does: [ok |-> it returned, addrs |-> the kinds of address]
    ddPc,         \* "request", "validated", "allowed", "resolved", "streaming", "done"
    ddResp,       \* the HTTP status of the answer, 0 before
    ddFetches,    \* outbound requests sent by stream_from_url
    cxSource,     \* custom-index job: "scenes" (scene_ids given) or "mosaic" (mosaic_id given)
    cxNames,      \* the band names the expression refers to
    cxAssets,     \* the bands some scene has an asset for
    cxLoaded,     \* the keys of bands_data
    cxPc,         \* "queued", "loaded", "completed", "failed"
    pjNext,       \* projects router: how many project ids create_project has issued
    pjLive,       \* the ids created through the endpoint and not deleted through it
    pjGone,       \* the ids deleted through the endpoint
    pjManager,    \* ProjectManager.projects (its keys) of the manager injected in the request
    pjReq,        \* the request being handled, or the last one: [op, id]
    pjResp,       \* its answer: [code, ids]
    pjPc,         \* "idle" between requests, "handling" once the manager is injected
    etReq,        \* two get_scene_tile requests: 1..2 -> their parameters
    etTag,        \* the ETag computed for each, <<>> before
    wkQueue,      \* the arq queue: the function names of the jobs enqueued, oldest first
    wkDone,       \* the names of the jobs the worker has executed
    wkLost,       \* the names of the jobs the worker ended with "function not found"
    lyLayers,     \* LayerManager.layers: the stored layers (their ids), in insertion order
    lyOrder,      \* LayerManager.layer_order
    lyListed,     \* what the last list_layers call returned
    lyFresh       \* TRUE when no operation followed the last list_layers call

storeVars == <<jobStatus, procJob>>
dlVars == <<nUrls, apiPc, wPc, tPc, tSeen, tAttempts, errors, returned>>
cancelVars == <<cancelPc, cancelSeen, cancelResp>>
jobVars == <<jKind, jPc, nScenes, nBands, jIndex, jIter, jIterCount, jFound, jGot,
             jCancelReq, pcCancel, pcCancelSeen, jFailedReads, jError, jWritten>>
tileVars == <<rqPc, rqEndpoint, rqUrl, rqScene, rqSentinel, rqBands, rqRescale,
              rqIfNoneMatch, resp>>
pixelVars == <<pxValues, pxStrategy, pxIter, pxData, pxPc>>
aggVars == <<agValues, agMethod, agPath, agOut, agPc>>
bandVars == <<bdAssets, bdBand, bdOut>>
rescaleVars == <<rcRaw, rcRange, rcPath, rcOut, rcAlpha, rcDivZero>>
evalVars == <<exNames, exAttribute, exWellFormed, exResult, exReached>>
directVars == <<ddScheme, ddHost, ddInfos, ddPc, ddResp, ddFetches>>
customVars == <<cxSource, cxNames, cxAssets, cxLoaded, cxPc>>
projectVars == <<pjNext, pjLive, pjGone, pjManager, pjReq, pjResp, pjPc>>
etagVars == <<etReq, etTag>>
workerVars == <<wkQueue, wkDone, wkLost>>
layerVars == <<lyLayers, lyOrder, lyListed, lyFresh>>
vars == <<storeVars, dlVars, cancelVars, jobVars, tileVars, pixelVars,
          aggVars, bandVars, rescaleVars, evalVars, directVars, customVars,
          projectVars, etagVars, workerVars, layerVars>>

\* what the steps of one part of the program leave alone
nonDownloadVars == <<jobVars, tileVars, pixelVars, aggVars, bandVars,
                     rescaleVars, evalVars, directVars, customVars,
                     projectVars, etagVars, workerVars, layerVars>>
nonJobVars == <<dlVars, cancelVars, tileVars, pixelVars, aggVars, bandVars,
                rescaleVars, evalVars, directVars, customVars, projectVars,
                etagVars, workerVars, layerVars>>
nonTileVars == <<storeVars, dlVars, cancelVars, jobVars, pixelVars, aggVars,
                 bandVars, rescaleVars, evalVars, directVars, customVars,
                 projectVars, etagVars, workerVars, layerVars>>
nonPixelVars == <<storeVars, dlVars, cancelVars, jobVars, tileVars, aggVars,
                  bandVars, rescaleVars, evalVars, directVars, customVars,
                  projectVars, etagVars, workerVars, layerVars>>
nonAggVars == <<storeVars, dlVars, cancelVars, jobVars, tileVars, pixelVars,
                bandVars, rescaleVars, evalVars, directVars, customVars,
                projectVars, etagVars, workerVars, layerVars>>
nonBandVars == <<storeVars, dlVars, cancelVars, jobVars, tileVars, pixelVars,
                 aggVars, rescaleVars, evalVars, directVars, customVars,
                 projectVars, etagVars, workerVars, layerVars>>
nonRescaleVars == <<storeVars, dlVars, cancelVars, jobVars, tileVars,
                    pixelVars, aggVars, bandVars, evalVars, directVars,
                    customVars, projectVars, etagVars, workerVars, layerVars>>
nonEvalVars == <<storeVars, dlVars, cancelVars, jobVars, tileVars, pixelVars,
                 aggVars, bandVars, rescaleVars, directVars, customVars,
                 projectVars, etagVars, workerVars, layerVars>>
nonDirectVars == <<storeVars, dlVars, cancelVars, jobVars, tileVars,
                   pixelVars, aggVars, bandVars, rescaleVars, evalVars,
                   customVars, projectVars, etagVars, workerVars, layerVars>>
nonCustomVars == <<storeVars, dlVars, cancelVars, jobVars, tileVars,
                   pixelVars, aggVars, bandVars, rescaleVars, evalVars,
                   directVars, projectVars, etagVars, workerVars, layerVars>>
nonProjectVars == <<storeVars, dlVars, cancelVars, jobVars, tileVars,
                    pixelVars, aggVars, bandVars, rescaleVars, evalVars,
                    directVars, customVars, etagVars, workerVars, layerVars>>
nonEtagVars == <<storeVars, dlVars, cancelVars, jobVars, tileVars, pixelVars,
                 aggVars, bandVars, rescaleVars, evalVars, directVars,
                 customVars, projectVars, workerVars, layerVars>>
nonWorkerVars == <<storeVars, dlVars, cancelVars, jobVars, tileVars,
                   pixelVars, aggVars, bandVars, rescaleVars, evalVars,
                   directVars, customVars, projectVars, etagVars, layerVars>>
nonLayerVars == <<storeVars, dlVars, cancelVars, jobVars, tileVars,
                  pixelVars, aggVars, bandVars, rescaleVars, evalVars,
                  directVars, customVars, projectVars, etagVars, workerVars>>

(***************************************************************************)
(* Bounds of the model.                                                    *)
(***************************************************************************)
MaxUrls == 6        \* longest url list of the worker-only specification
MaxRaceUrls == 2    \* longest url list when the API handler interleaves

None == 0 - 1

(***************************************************************************)
(* The status store.                                                       *)
(***************************************************************************)
SemaphoreLimit == 5

Absent == [status |-> "absent", completed |-> None, progress |-> None, user |-> FALSE]
AbsentJob == [status |-> "absent", progress |-> None]

\* A `data` dict: the keys the model follows, None / FALSE when the key is missing.
Data(completed, progress, user) ==
    [completed |-> completed, progress |-> progress, user |-> user]

NoData == Data(None, None, FALSE)

\* The whole value written under job:status:{job_id}: {"status": status, **data}.
StatusValue(status, data) ==
    [status |-> status, completed |-> data.completed,
     progress |-> data.progress, user |-> data.user]

\* The value written back under processing_job:{job_id}, when the key exists.
ProcessingValue(existing, status, data) ==
    IF existing = AbsentJob THEN AbsentJob
    ELSE [status |-> status,
          progress |-> IF data.progress # None THEN data.progress
                       ELSE IF status = "completed" THEN 100
                       ELSE existing.progress]

\* update_job_status: both keys.
UpdateJobStatus(status, data) ==
    /\ jobStatus' = StatusValue(status, data)
    /\ procJob' = ProcessingValue(procJob, status, data)

\* get_job_status(...).get("completed", 0)
GetCompleted == IF jobStatus.completed = None THEN 0 ELSE jobStatus.completed

\* get_job_status(...).get("status"): "not_found" when the key is missing
GetStatus == IF jobStatus = Absent THEN "not_found" ELSE jobStatus.status

(***************************************************************************)
(* queue_download (downloads router).                                      *)
(***************************************************************************)
Urls == 1..nUrls

QueueDownloadEnqueue ==
    /\ apiPc = "idle"
    /\ apiPc' = "enqueued"
    /\ UNCHANGED <<storeVars, nUrls, wPc, tPc, tSeen, tAttempts, errors, returned,
                   cancelVars>>
    /\ UNCHANGED nonDownloadVars

QueueDownloadSetPending ==
    /\ apiPc = "enqueued"
    /\ UpdateJobStatus("pending", Data(None, None, TRUE))
    /\ apiPc' = "done"
    /\ UNCHANGED <<nUrls, wPc, tPc, tSeen, tAttempts, errors, returned, cancelVars>>
    /\ UNCHANGED nonDownloadVars

(***************************************************************************)
(* list_jobs (downloads router).  The job was queued by "owner".           *)
(***************************************************************************)
\* job_dict.get("user_id") of the record
RecordUserId == IF jobStatus.user THEN "owner" ELSE "none"

\* the job ids list_jobs returns to user_id (no status filter, first page)
list_jobs(user_id) ==
    IF jobStatus # Absent /\ RecordUserId = user_id THEN {"job"} ELSE {}

(***************************************************************************)
(* download_imagery (worker).                                              *)
(***************************************************************************)
InFlight == Cardinality({i \in Urls : tPc[i] \in {"fetch", "read"}})

SemaphoreFree_Unbounded == TRUE

\* asyncio.Semaphore(5): a free slot
SemaphoreFree == InFlight < SemaphoreLimit

\* The worker picks the job up and writes the first in_progress record.
DownloadStart ==
    /\ apiPc # "idle"
    /\ wPc = "idle"
    /\ UpdateJobStatus("in_progress", Data(0, None, FALSE))
    /\ wPc' = "gather"
    /\ UNCHANGED <<nUrls, apiPc, tPc, tSeen, tAttempts, errors, returned, cancelVars>>
    /\ UNCHANGED nonDownloadVars

\* download_single enters `async with semaphore` and starts client.get.
\* gather starts the tasks in list order and the semaphore wakes waiters in
\* FIFO order, so slots are taken in index order.
Acquire(i) ==
    /\ wPc = "gather"
    /\ tPc[i] = "wait"
    /\ \A j \in Urls : j < i => tPc[j] # "wait"
    /\ SemaphoreFree
    /\ tPc' = [tPc EXCEPT ![i] = "fetch"]
    /\ tAttempts' = [tAttempts EXCEPT ![i] = @ + 1]
    /\ UNCHANGED <<storeVars, nUrls, apiPc, wPc, tSeen, errors, returned, cancelVars>>
    /\ UNCHANGED nonDownloadVars

\* The fetch succeeded, the file is written and the progress record is read.
FetchOk(i) ==
    /\ wPc = "gather"
    /\ tPc[i] = "fetch"
    /\ tPc' = [tPc EXCEPT ![i] = "read"]
    /\ tSeen' = [tSeen EXCEPT ![i] = GetCompleted + 1]
    /\ UNCHANGED <<storeVars, nUrls, apiPc, wPc, tAttempts, errors, returned,
                   cancelVars>>
    /\ UNCHANGED nonDownloadVars

\* The fetch raised: the error is recorded and the slot released.
FetchFail(i) ==
    /\ wPc = "gather"
    /\ tPc[i] = "fetch"
    /\ tPc' = [tPc EXCEPT ![i] = "err"]
    /\ errors' = Append(errors, i)
    /\ UNCHANGED <<storeVars, nUrls, apiPc, wPc, tSeen, tAttempts, returned,
                   cancelVars>>
    /\ UNCHANGED nonDownloadVars

\* The progress record is written back whole, and the slot released.
WriteProgress(i) ==
    /\ wPc = "gather"
    /\ tPc[i] = "read"
    /\ UpdateJobStatus("in_progress", Data(tSeen[i], None, FALSE))
    /\ tPc' = [tPc EXCEPT ![i] = "ok"]
    /\ UNCHANGED <<nUrls, apiPc, wPc, tSeen, tAttempts, errors, returned, cancelVars>>
    /\ UNCHANGED nonDownloadVars

RECURSIVE OkUpTo(_)
\* results = [r for r in download_results if r is not None], in url order
OkUpTo(k) ==
    IF k = 0 THEN <<>>
    ELSE IF tPc[k] = "ok" THEN Append(OkUpTo(k - 1), k) ELSE OkUpTo(k - 1)

Results == OkUpTo(nUrls)

FinalStatus_NoPartial(nOk, n) == IF nOk > 0 \/ n = 0 THEN "completed" ELSE "failed"

\* "Determine final status"
FinalStatus(nOk, n) ==
    IF nOk = n THEN "completed"
    ELSE IF nOk > 0 THEN "partial"
    ELSE "failed"

NoResult == [status |-> "none", results |-> <<>>, errors |-> <<>>,
             total_requested |-> None, successful |-> None, failed |-> None]

\* gather returned: the final record is written and the result returned.
DownloadFinish ==
    /\ wPc = "gather"
    /\ \A i \in Urls : tPc[i] \in {"ok", "err"}
    /\ LET status == FinalStatus(Len(Results), nUrls) IN
        /\ UpdateJobStatus(status, Data(Len(Results), None, FALSE))
        /\ returned' = [status |-> status, results |-> Results, errors |-> errors,
                        total_requested |-> nUrls, successful |-> Len(Results),
                        failed |-> Len(errors)]
    /\ wPc' = "returned"
    /\ UNCHANGED <<nUrls, apiPc, tPc, tSeen, tAttempts, errors, cancelVars>>
    /\ UNCHANGED nonDownloadVars

(***************************************************************************)
(* cancel_job (downloads router).                                          *)
(***************************************************************************)
RejectedStatuses_AllFinished == {"completed", "partial", "failed", "cancelled"}

\* the statuses for which cancel_job answers 400 before trying to abort
RejectedStatuses == {"completed", "failed"}

\* The status is read; the request ends here with 404 or 400.
CancelRead ==
    /\ apiPc = "done"
    /\ cancelPc = "idle"
    /\ cancelSeen' = GetStatus
    /\ IF GetStatus = "not_found"
         THEN cancelPc' = "done" /\ cancelResp' = 404
         ELSE IF GetStatus \in RejectedStatuses
           THEN cancelPc' = "done" /\ cancelResp' = 400
           ELSE cancelPc' = "abort" /\ cancelResp' = 0
    /\ UNCHANGED <<storeVars, dlVars>>
    /\ UNCHANGED nonDownloadVars

\* abort_job answered: on True the worker's task is gone and the record is
\* written as cancelled, on False the request is answered 400.
CancelAbort(aborted) ==
    /\ cancelPc = "abort"
    /\ cancelPc' = "done"
    /\ IF aborted
         THEN /\ UpdateJobStatus("cancelled", NoData)
              /\ wPc' = IF wPc \in {"idle", "gather"} THEN "aborted" ELSE wPc
              /\ cancelResp' = 200
         ELSE /\ UNCHANGED <<storeVars, wPc>>
              /\ cancelResp' = 400
    /\ UNCHANGED <<nUrls, apiPc, tPc, tSeen, tAttempts, errors, returned, cancelSeen>>
    /\ UNCHANGED nonDownloadVars

(***************************************************************************)
(* Processing and mosaic jobs: ProcessingService, MosaicService and the    *)
(* worker's task functions.  Progress values are the code's, rounded down. *)
(***************************************************************************)
MaxScenes == 2      \* most scenes of a job
MaxBands == 2       \* most bands of a job
MaxStack == 3       \* most scenes in the stack of an aggregation
MaxProjects == 3     \* most projects created
MaxQueued == 2       \* most jobs enqueued
MaxLayers == 2       \* most layers stored, longest order list

MosaicKind == "create_imagery_mosaic"

\* the task ProcessingService.create_job enqueues for each ProcessingType
ProcessingKinds ==
    {"calculate_spectral_index", "perform_classification",
     "calculate_zonal_statistics", "detect_changes", "create_temporal_composite",
     "calculate_band_math", "extract_mask"}

\* the task functions that return a dict and write no status
StubKinds ==
    {"detect_changes", "create_temporal_composite", "calculate_band_math",
     "extract_mask"}


\* data = {"stage": ..., "progress": p}
Progress(p) == Data(None, p, FALSE)

\* No job of this kind is followed.
JobsIdle ==
    /\ jKind = "none"
    /\ jPc = "none"
    /\ nScenes = 0
    /\ nBands = 0
    /\ jIndex = "builtin"
    /\ jIter = 0
    /\ jIterCount = 0
    /\ jFound = 0
    /\ jGot = 0
    /\ jCancelReq = FALSE
    /\ pcCancel = "idle"
    /\ pcCancelSeen = AbsentJob
    /\ jFailedReads = 0
    /\ jError = "none"
    /\ jWritten = FALSE

\* ProcessingService.create_job: the PENDING record, then the task is queued.
CreateJob ==
    /\ jKind \in ProcessingKinds
    /\ jPc = "none"
    /\ procJob' = [status |-> "pending", progress |-> 0]
    /\ jPc' = "queued"
    /\ UNCHANGED <<jobStatus, jKind, nScenes, nBands, jIndex, jIter, jIterCount,
                   jFound, jGot, jFailedReads, jError, jWritten,
                   jCancelReq, pcCancel, pcCancelSeen>>
    /\ UNCHANGED nonJobVars

\* MosaicService.create_mosaic: the task is queued; no record is written.
CreateMosaic ==
    /\ jKind = MosaicKind
    /\ jPc = "none"
    /\ jPc' = "queued"
    /\ UNCHANGED <<storeVars, jKind, nScenes, nBands, jIndex, jIter, jIterCount,
                   jFound, jGot, jFailedReads, jError, jWritten,
                   jCancelReq, pcCancel, pcCancelSeen>>
    /\ UNCHANGED nonJobVars

\* A step of a task function: the status written and the next position.
TaskStep(status, data, pc) ==
    /\ UpdateJobStatus(status, data)
    /\ jPc' = pc
    /\ UNCHANGED <<jKind, nScenes, nBands, jIndex, jCancelReq, pcCancel,
                   pcCancelSeen, jError>>
    /\ UNCHANGED nonJobVars

\* `except Exception as e`: the failed record with {"error": str(e)} is
\* written and the exception re-raised.
TaskRaise(cause) ==
    /\ UpdateJobStatus("failed", NoData)
    /\ jPc' = "raised"
    /\ jError' = cause
    /\ UNCHANGED <<jKind, nScenes, nBands, jIndex, jCancelReq, pcCancel,
                   pcCancelSeen>>
    /\ UNCHANGED nonJobVars

\* detect_changes, create_temporal_composite, calculate_band_math,
\* extract_mask: log, then return the dict.
StubReturn ==
    /\ jKind \in StubKinds
    /\ jPc = "queued"
    /\ jPc' = "returned"
    /\ UNCHANGED <<storeVars, jKind, nScenes, nBands, jIndex, jIter, jIterCount,
                   jFound, jGot, jFailedReads, jError, jWritten,
                   jCancelReq, pcCancel, pcCancelSeen>>
    /\ UNCHANGED nonJobVars

\* run_classification (through perform_classification) and
\* calculate_zonal_statistics: the first status write.
SimpleStart ==
    /\ jKind \in {"perform_classification", "calculate_zonal_statistics"}
    /\ jPc = "queued"
    /\ TaskStep("processing", Progress(0), "running")
    /\ UNCHANGED <<jIter, jIterCount, jFound, jGot, jFailedReads, jWritten>>

\* ... the result is built and written as completed.
SimpleFinish ==
    /\ jKind \in {"perform_classification", "calculate_zonal_statistics"}
    /\ jPc = "running"
    /\ TaskStep("completed", NoData, "returned")
    /\ UNCHANGED <<jIter, jIterCount, jFound, jGot, jFailedReads, jWritten>>

\* run_classification: output_dir.mkdir raised.
SimpleFail ==
    /\ jKind = "perform_classification"
    /\ jPc = "running"
    /\ TaskRaise("mkdir")
    /\ UNCHANGED <<jIter, jIterCount, jFound, jGot, jFailedReads, jWritten>>

\* create_imagery_mosaic: the first status write.
MosaicInit ==
    /\ jKind = MosaicKind
    /\ jPc = "queued"
    /\ TaskStep("processing", Progress(0), "scenes")
    /\ UNCHANGED <<jIter, jIterCount, jFound, jGot, jFailedReads, jWritten>>

\* One iteration of `for i, scene_id in enumerate(scene_ids)`: the progress
\* write, then get_scene, which returns a scene, returns None or raises.
MosaicFetchScene(outcome) ==
    /\ jKind = MosaicKind
    /\ jPc = "scenes"
    /\ jIter < nScenes
    /\ IF outcome = "raise"
         THEN TaskRaise("catalog")
         ELSE TaskStep("processing", Progress((jIter * 30) \div nScenes), "scenes")
    /\ jIter' = jIter + 1
    /\ jIterCount' = jIterCount + 1
    /\ jFound' = IF outcome = "found" THEN jFound + 1 ELSE jFound
    /\ UNCHANGED <<jGot, jFailedReads, jWritten>>

\* After the scene loop: no scene at all raises, else the band loop begins.
MosaicScenesDone ==
    /\ jKind = MosaicKind
    /\ jPc = "scenes"
    /\ jIter = nScenes
    /\ IF jFound = 0
         THEN TaskRaise("no_scenes")
         ELSE TaskStep("processing", Progress(40), "bands")
    /\ jIter' = 0
    /\ UNCHANGED <<jIterCount, jFound, jGot, jFailedReads, jWritten>>

\* One iteration of `for band_idx, band in enumerate(bands)`: the progress
\* write and the reads of the band from every scene that has it.  A read that
\* raises is logged: "data" (no read raised), "some" (one raised, another gave
\* data), "failed" (every read raised), "absent" (no scene has the band).
MosaicBand(outcome) ==
    /\ jKind = MosaicKind
    /\ jPc = "bands"
    /\ jIter < nBands
    /\ TaskStep("processing", Progress(40 + (jIter * 50) \div nBands), "bands")
    /\ jIter' = jIter + 1
    /\ jIterCount' = jIterCount + 1
    /\ jGot' = IF outcome \in {"data", "some"} THEN jGot + 1 ELSE jGot
    /\ jFailedReads' =
          IF outcome \in {"some", "failed"} THEN jFailedReads + 1 ELSE jFailedReads
    /\ UNCHANGED <<jFound, jWritten>>

\* After the band loop: with some band the mosaic is about to be saved; with
\* none calculate_file_hash raises on the file that was never written.
MosaicBandsDone ==
    /\ jKind = MosaicKind
    /\ jPc = "bands"
    /\ jIter = nBands
    /\ IF jGot = 0
         THEN TaskRaise("no_file")
         ELSE TaskStep("processing", Progress(90), "saving")
    /\ UNCHANGED <<jIter, jIterCount, jFound, jGot, jFailedReads, jWritten>>

\* The GeoTIFF is written and hashed: completed with the result dict (which
\* has no "progress" key), or the write raised.
MosaicSave(ok) ==
    /\ jKind = MosaicKind
    /\ jPc = "saving"
    /\ IF ok
         THEN TaskStep("completed", NoData, "returned")
         ELSE TaskRaise("write")
    /\ jWritten' = ok
    /\ UNCHANGED <<jIter, jIterCount, jFound, jGot, jFailedReads>>

\* calculate_spectral_index: the first status write.
IndexInit ==
    /\ jKind = "calculate_spectral_index"
    /\ jPc = "queued"
    /\ TaskStep("processing", Progress(0), "init")
    /\ UNCHANGED <<jIter, jIterCount, jFound, jGot, jFailedReads, jWritten>>

\* The output directory is made (or mkdir raises) and loading begins.
IndexLoad(ok) ==
    /\ jKind = "calculate_spectral_index"
    /\ jPc = "init"
    /\ IF ok
         THEN TaskStep("processing", Progress(20), "scenes")
         ELSE TaskRaise("mkdir")
    /\ UNCHANGED <<jIter, jIterCount, jFound, jGot, jFailedReads, jWritten>>

\* One iteration of `for scene_id in scene_ids` building scene_urls.
IndexFetchScene(outcome) ==
    /\ jKind = "calculate_spectral_index"
    /\ jPc = "scenes"
    /\ jIter < nScenes
    /\ IF outcome = "raise"
         THEN TaskRaise("catalog")
         ELSE /\ jPc' = "scenes"
              /\ UNCHANGED <<storeVars, jKind, nScenes, nBands, jIndex, jCancelReq,
                             pcCancel, pcCancelSeen, jError>>
              /\ UNCHANGED nonJobVars
    /\ jIter' = jIter + 1
    /\ jIterCount' = jIterCount + 1
    /\ jFound' = IF outcome = "found" THEN jFound + 1 ELSE jFound
    /\ UNCHANGED <<jGot, jFailedReads, jWritten>>

\* After the scene loop: the band loop runs only `if scene_urls`; an empty
\* scene_ids (and no mosaic_id) raises "Either scene_ids or mosaic_id required".
IndexScenesDone ==
    /\ jKind = "calculate_spectral_index"
    /\ jPc = "scenes"
    /\ jIter = nScenes
    /\ IF nScenes = 0
         THEN TaskRaise("no_input")
         ELSE /\ jPc' = IF jFound = 0 THEN "loaded" ELSE "bands"
              /\ UNCHANGED <<storeVars, jKind, nScenes, nBands, jIndex, jCancelReq,
                             pcCancel, pcCancelSeen, jError>>
              /\ UNCHANGED nonJobVars
    /\ jIter' = 0
    /\ UNCHANGED <<jIterCount, jFound, jGot, jFailedReads, jWritten>>

\* One iteration of `for band in required_bands`: the band is read from every
\* scene that has it; a read that raises ends the job.
IndexBand(outcome) ==
    /\ jKind = "calculate_spectral_index"
    /\ jPc = "bands"
    /\ jIter < nBands
    /\ IF outcome = "raise"
         THEN TaskRaise("read")
         ELSE /\ jPc' = IF jIter + 1 = nBands THEN "loaded" ELSE "bands"
              /\ UNCHANGED <<storeVars, jKind, nScenes, nBands, jIndex, jCancelReq,
                             pcCancel, pcCancelSeen, jError>>
              /\ UNCHANGED nonJobVars
    /\ jIter' = jIter + 1
    /\ jIterCount' = jIterCount + 1
    /\ jGot' = IF outcome = "data" THEN jGot + 1 ELSE jGot
    /\ jFailedReads' = IF outcome = "raise" THEN jFailedReads + 1 ELSE jFailedReads
    /\ UNCHANGED <<jFound, jWritten>>

\* The data is loaded: "calculating_index".
IndexCalc ==
    /\ jKind = "calculate_spectral_index"
    /\ jPc = "loaded"
    /\ TaskStep("processing", Progress(50), "calc")
    /\ UNCHANGED <<jIter, jIterCount, jFound, jGot, jFailedReads, jWritten>>

\* Why the computation of the index raises, "none" when it does not: a
\* built-in formula needs every required band in bands_data (KeyError), an
\* expression needs bands_data and has to evaluate, and an index type with
\* neither raises ValueError("Unknown index type: ...").
IndexError_UnknownPasses(evalOk) ==
    IF jIndex = "builtin"
      THEN IF jGot < nBands THEN "missing_band" ELSE "none"
      ELSE IF jIndex = "expression" /\ (jFound = 0 \/ ~evalOk)
             THEN "expression" ELSE "none"

IndexError(evalOk) ==
    IF jIndex = "builtin"
      THEN IF jGot < nBands THEN "missing_band" ELSE "none"
    ELSE IF jIndex = "expression"
      THEN IF jFound = 0 \/ ~evalOk THEN "expression" ELSE "none"
    ELSE "unknown_index"

IndexCompute(evalOk) ==
    /\ jKind = "calculate_spectral_index"
    /\ jPc = "calc"
    /\ IF IndexError(evalOk) # "none"
         THEN TaskRaise(IndexError(evalOk))
         ELSE TaskStep("processing", Progress(90), "saving")
    /\ UNCHANGED <<jIter, jIterCount, jFound, jGot, jFailedReads, jWritten>>

\* The raster is written and the result dict built: completed; or opening
\* the file raised; or a later statement (write_colormap, the statistics)
\* raised with the raster already on disk.
IndexSave(outcome) ==
    /\ jKind = "calculate_spectral_index"
    /\ jPc = "saving"
    /\ IF outcome = "ok"
         THEN TaskStep("completed", NoData, "returned")
         ELSE TaskRaise("write")
    /\ jWritten' = (outcome # "open_raises")
    /\ UNCHANGED <<jIter, jIterCount, jFound, jGot, jFailedReads>>

\* ProcessingService.cancel_job: the job is read.
ProcCancelRead ==
    /\ jKind \in ProcessingKinds
    /\ jPc # "none"
    /\ pcCancel = "idle"
    /\ pcCancelSeen' = procJob
    /\ pcCancel' = IF procJob.status \in {"pending", "processing"} THEN "read"
                   ELSE "done"
    /\ UNCHANGED <<storeVars, jKind, jPc, nScenes, nBands, jIndex, jIter,
                   jIterCount, jFound, jGot, jFailedReads, jError, jWritten,
                   jCancelReq>>
    /\ UNCHANGED nonJobVars

\* ... and written back whole with status cancelled.
ProcCancelWrite ==
    /\ pcCancel = "read"
    /\ procJob' = [pcCancelSeen EXCEPT !.status = "cancelled"]
    /\ pcCancel' = "done"
    /\ jCancelReq' = TRUE
    /\ UNCHANGED <<jobStatus, jKind, jPc, nScenes, nBands, jIndex, jIter,
                   jIterCount, jFound, jGot, jFailedReads, jError, jWritten,
                   pcCancelSeen>>
    /\ UNCHANGED nonJobVars

\* MosaicService.cancel_job: the record is set to cancelled, whatever it held.
MosaicCancel ==
    /\ jKind = MosaicKind
    /\ jPc # "none"
    /\ ~jCancelReq
    /\ jobStatus' = StatusValue("cancelled", NoData)
    /\ jCancelReq' = TRUE
    /\ UNCHANGED <<procJob, jKind, jPc, nScenes, nBands, jIndex, jIter,
                   jIterCount, jFound, jGot, jFailedReads, jError, jWritten,
                   pcCancel, pcCancelSeen>>
    /\ UNCHANGED nonJobVars

(***************************************************************************)
(* Tile endpoints (tiles/routes.py).  A band is "data" (a tile of the band *)
(* was read) or "zero" (a 256x256 zero array stands for it).               *)
(***************************************************************************)
\* What reading one band's tile can do: return data, find no asset for the
\* band, raise with the wording "... is outside bounds", raise with the
\* wording "... out of bounds", or raise anything else.
BandOutcome == {"data", "notfound", "outside", "oob", "error"}
OutOfBounds == {"outside", "oob"}

NoResponse ==
    [code |-> 0, etag |-> FALSE, cache |-> FALSE, body |-> "none",
     bands |-> <<>>, reads |-> 0, source |-> "none"]

\* An HTTPException, or the 304 without ETag / body.
Status(code) == [NoResponse EXCEPT !.code = code]

\* The all-transparent 256x256 RGBA PNG, returned with media_type only.
Transparent(reads) ==
    [code |-> 200, etag |-> FALSE, cache |-> FALSE, body |-> "transparent",
     bands |-> <<>>, reads |-> reads, source |-> "scene"]

\* `if_none_match.strip('"') == etag`: the quoted and the bare form of the
\* tag match, a weak validator W/"..." and any other tag do not.
IfNoneMatchValues == {"none", "quoted", "bare", "weak", "other"}
Matches(header) == header \in {"quoted", "bare"}

\* The band loop of get_scene_tile from band i on, with the band_data list
\* and the has_valid_data flag built so far.
RECURSIVE SceneBandLoop(_, _, _)
SceneBandLoop(i, band_data, has_valid_data) ==
    IF i > Len(rqBands)
      THEN [early |-> FALSE, band_data |-> band_data,
            has_valid_data |-> has_valid_data, reads |-> i - 1]
      ELSE CASE rqBands[i] = "data" ->
                  SceneBandLoop(i + 1, Append(band_data, "data"), TRUE)
             [] rqBands[i] = "notfound" ->
                  SceneBandLoop(i + 1, Append(band_data, "zero"), has_valid_data)
             [] rqBands[i] \in OutOfBounds ->
                  SceneBandLoop(i + 1, Append(band_data, "zero"), has_valid_data)
             [] OTHER ->
                  IF Len(band_data) = 0
                    THEN [early |-> TRUE, band_data |-> band_data,
                          has_valid_data |-> has_valid_data, reads |-> i]
                    ELSE SceneBandLoop(i + 1, Append(band_data, "zero"),
                                       has_valid_data)

\* get_sentinel2_tile_fallback with the public bucket's answer per band
\* (TRUE: one of the two URLs gave the tile).  np.stack of other than three
\* bands does not fit the RGBA array and a malformed rescale does not parse:
\* both raise ("raise" is the code 0 - 1 here).
Raised == Status(None)
Fallback(bucket) ==
    IF Len(rqBands) # 3 \/ rqRescale = "malformed"
      THEN Raised
      ELSE [code |-> 200, etag |-> FALSE, cache |-> FALSE,
            body |-> IF \E i \in 1..3 : bucket[i] THEN "image" ELSE "transparent",
            bands |-> [i \in 1..3 |-> IF bucket[i] THEN "data" ELSE "zero"],
            reads |-> 3, source |-> "fallback"]

\* The outer `except Exception` of get_scene_tile: the fallback for
\* Sentinel-2, else (or when the fallback raises too) a 500.
SceneExcept(bucket) ==
    IF rqSentinel /\ Fallback(bucket) # Raised
      THEN Fallback(bucket)
      ELSE Status(500)

\* The composited tile of get_scene_tile: rescale, alpha, ETag, 304 or 200.
SceneComposite(loop, bucket) ==
    IF rqRescale = "malformed"
      THEN SceneExcept(bucket)
      ELSE IF Matches(rqIfNoneMatch)
             THEN [code |-> 304, etag |-> TRUE, cache |-> TRUE, body |-> "none",
                   bands |-> <<>>, reads |-> loop.reads, source |-> "scene"]
             ELSE [code |-> 200, etag |-> TRUE, cache |-> TRUE, body |-> "image",
                   bands |-> loop.band_data, reads |-> loop.reads,
                   source |-> "scene"]

SceneTileResponse(bucket) ==
    LET loop == SceneBandLoop(1, <<>>, FALSE)
    IN  IF rqUrl THEN Status(400)
        ELSE IF rqScene = "raise" THEN SceneExcept(bucket)
        ELSE IF rqScene = "none"
               THEN IF rqSentinel THEN SceneExcept(bucket) ELSE Status(404)
        ELSE IF Len(rqBands) # 3 THEN Status(400)
        ELSE IF loop.early \/ ~loop.has_valid_data THEN Transparent(loop.reads)
        ELSE SceneComposite(loop, bucket)

\* get_tile: one reader for the file at `url`; all bands are read at once, so
\* the outcome of the first band stands for the read.
TileResponse ==
    LET read == rqBands[1]
    IN  IF read = "outside" THEN [Transparent(1) EXCEPT !.source = "cog"]
        ELSE IF read # "data" THEN Status(500)
        ELSE IF rqRescale = "malformed" \/ Len(rqBands) = 2 THEN Status(500)
        ELSE [code |-> 200, etag |-> FALSE, cache |-> FALSE,
              body |-> IF rqRescale = "degenerate" THEN "transparent" ELSE "image",
              bands |-> [i \in 1..Len(rqBands) |-> "data"], reads |-> 1,
              source |-> "cog"]

\* get_sentinel2_tile: every raise, the HTTPException 400 included, becomes a
\* 500 in `except Exception`.
Sentinel2TileResponse ==
    IF \/ Len(rqBands) # 3
       \/ \E i \in 1..Len(rqBands) : rqBands[i] # "data"
       \/ rqRescale = "malformed"
      THEN Status(500)
      ELSE [code |-> 200, etag |-> FALSE, cache |-> FALSE, body |-> "image",
            bands |-> [i \in 1..3 |-> "data"], reads |-> 3, source |-> "cog"]

\* The request parameters, which no handler changes.
rqParams == <<rqUrl, rqScene, rqSentinel, rqBands, rqRescale, rqIfNoneMatch>>

get_scene_tile(bucket) ==
    /\ rqPc = "request"
    /\ rqPc' = "done"
    /\ rqEndpoint' = "get_scene_tile"
    /\ resp' = SceneTileResponse(bucket)
    /\ UNCHANGED rqParams
    /\ UNCHANGED nonTileVars

get_tile ==
    /\ rqPc = "request"
    /\ rqPc' = "done"
    /\ rqEndpoint' = "get_tile"
    /\ resp' = TileResponse
    /\ UNCHANGED rqParams
    /\ UNCHANGED nonTileVars

get_sentinel2_tile ==
    /\ rqPc = "request"
    /\ rqPc' = "done"
    /\ rqEndpoint' = "get_sentinel2_tile"
    /\ resp' = Sentinel2TileResponse
    /\ UNCHANGED rqParams
    /\ UNCHANGED nonTileVars

TileIdle ==
    /\ rqPc = "idle"
    /\ rqEndpoint = "none"
    /\ rqUrl = FALSE
    /\ rqScene = "found"
    /\ rqSentinel = FALSE
    /\ rqBands = <<>>
    /\ rqRescale = "none"
    /\ rqIfNoneMatch = "none"
    /\ resp = NoResponse

(***************************************************************************)
(* create_imagery_mosaic, one pixel of one band.                           *)
(***************************************************************************)
MosaicStrategy == {"first", "last", "mean", "max", "min"}
PixelValue == {0, 10, 42}

\* One iteration of `for scene_bands in cog_urls`: a read that raises is
\* logged; the first scene read becomes band_data; later scenes fill the
\* pixels of band_data that are 0.  `strategy` is not consulted.
MergePixel(band_data, value) ==
    IF value = None THEN band_data
    ELSE IF band_data = None THEN value
    ELSE IF band_data = 0 THEN value ELSE band_data

MosaicPixelRead ==
    /\ pxPc = "loop"
    /\ pxIter <= Len(pxValues)
    /\ pxData' = MergePixel(pxData, pxValues[pxIter])
    /\ pxIter' = pxIter + 1
    /\ UNCHANGED <<pxValues, pxStrategy, pxPc>>
    /\ UNCHANGED nonPixelVars

\* After the loop the band goes to mosaic_bands (when band_data is not None).
MosaicPixelDone ==
    /\ pxPc = "loop"
    /\ pxIter > Len(pxValues)
    /\ pxPc' = "done"
    /\ UNCHANGED <<pxValues, pxStrategy, pxIter, pxData>>
    /\ UNCHANGED nonPixelVars

PixelIdle ==
    /\ pxValues = <<>>
    /\ pxStrategy = "first"
    /\ pxIter = 1
    /\ pxData = None
    /\ pxPc = "idle"

(***************************************************************************)
(* Aggregation across scenes, one pixel of one band: aggregate_scenes and  *)
(* the aggregation step of calculate_spectral_index.  A result is a Number:*)
(* num / den, or its square root; 0 / 0 is NaN.  A masked entry of the     *)
(* stack is None.                                                          *)
(***************************************************************************)
AggregationMethod ==
    {"mean", "median", "max", "min", "std", "first", "last", "count"}

\* Sentinel-2 L2A reflectances are unsigned; 0 is no-data.
StackValue == {0, 5, 7}

Number(num, den) == [num |-> num, den |-> den, root |-> FALSE]
NaN == Number(0, 0)
NoNumber == Number(None, 0)

\* band_data_float[band_data_float == 0] = np.nan
ZeroToNaN(values) ==
    [i \in 1..Len(values) |-> IF values[i] = 0 THEN None ELSE values[i]]

\* np.where(stacked > 0, stacked, np.nan)
NonPositiveToNaN(values) ==
    [i \in 1..Len(values) |-> IF values[i] > 0 THEN values[i] ELSE None]

\* the entries the nan-functions look at
Valid(stack) == SelectSeq(stack, LAMBDA v : v # None)

RECURSIVE Total(_)
Total(values) == IF values = <<>> THEN 0 ELSE Head(values) + Total(Tail(values))

RECURSIVE TotalSquares(_)
TotalSquares(values) ==
    IF values = <<>> THEN 0
    ELSE Head(values) * Head(values) + TotalSquares(Tail(values))

Ascending(values) ==
    CHOOSE t \in [1..Len(values) -> {values[i] : i \in 1..Len(values)}] :
        /\ \A i \in 1..(Len(values) - 1) : t[i] <= t[i + 1]
        /\ \A v \in {values[i] : i \in 1..Len(values)} :
              Cardinality({i \in 1..Len(values) : t[i] = v})
                = Cardinality({i \in 1..Len(values) : values[i] = v})

nanmean_CountingMasked(stack) ==
    IF Valid(stack) = <<>> THEN NaN
    ELSE Number(Total(Valid(stack)), Len(stack))

nanmean(stack) ==
    IF Valid(stack) = <<>> THEN NaN
    ELSE Number(Total(Valid(stack)), Len(Valid(stack)))

nanmedian(stack) ==
    LET sorted == Ascending(Valid(stack))
        n == Len(sorted)
    IN  IF n = 0 THEN NaN
        ELSE IF n % 2 = 1 THEN Number(sorted[(n + 1) \div 2], 1)
        ELSE Number(sorted[n \div 2] + sorted[n \div 2 + 1], 2)

nanmax(stack) ==
    LET sorted == Ascending(Valid(stack))
    IN  IF sorted = <<>> THEN NaN ELSE Number(sorted[Len(sorted)], 1)

nanmin(stack) ==
    LET sorted == Ascending(Valid(stack))
    IN  IF sorted = <<>> THEN NaN ELSE Number(sorted[1], 1)

\* the population standard deviation (ddof = 0)
nanstd(stack) ==
    LET v == Valid(stack)
        n == Len(v)
    IN  IF n = 0 THEN NaN
        ELSE [num |-> n * TotalSquares(v) - Total(v) * Total(v), den |-> n * n,
              root |-> TRUE]

\* np.sum(~np.isnan(stacked), axis=0)
CountValid(stack) == Number(Len(Valid(stack)), 1)

\* np.nan_to_num(aggregated, nan=0)
nan_to_num(x) == IF x = NaN THEN Number(0, 1) ELSE x

\* the if / elif chain of aggregate_scenes
AggregateScenesPixel(method, values) ==
    LET stacked == ZeroToNaN(values)
    IN  IF values = <<>> THEN NoNumber
        ELSE nan_to_num(
               CASE method = "mean" -> nanmean(stacked)
                 [] method = "median" -> nanmedian(stacked)
                 [] method = "max" -> nanmax(stacked)
                 [] method = "min" -> nanmin(stacked)
                 [] method = "std" -> nanstd(stacked)
                 [] method = "count" -> CountValid(stacked)
                 [] OTHER -> nanmean(stacked))

\* the if / elif chain of calculate_spectral_index
IndexAggregatePixel(method, values) ==
    LET masked == NonPositiveToNaN(values)
    IN  IF values = <<>> THEN NoNumber
        ELSE nan_to_num(
               CASE method = "mean" -> nanmean(masked)
                 [] method = "median" -> nanmedian(masked)
                 [] method = "max" -> nanmax(masked)
                 [] method = "min" -> nanmin(masked)
                 [] OTHER -> nanmean(masked))

aggregate_scenes ==
    /\ agPc = "stacked"
    /\ agPc' = "done"
    /\ agPath' = "aggregate_scenes"
    /\ agOut' = AggregateScenesPixel(agMethod, agValues)
    /\ UNCHANGED <<agValues, agMethod>>
    /\ UNCHANGED nonAggVars

IndexAggregate ==
    /\ agPc = "stacked"
    /\ agPc' = "done"
    /\ agPath' = "calculate_spectral_index"
    /\ agOut' = IndexAggregatePixel(agMethod, agValues)
    /\ UNCHANGED <<agValues, agMethod>>
    /\ UNCHANGED nonAggVars

AggregateIdle ==
    /\ agValues = <<>>
    /\ agMethod = "mean"
    /\ agPath = "none"
    /\ agOut = NoNumber
    /\ agPc = "idle"

(***************************************************************************)
(* Band resolution: from a band name to a key of scene.assets, in the tile *)
(* compositor, the mosaic builder and the spectral index engine.  The URL  *)
(* is scene.assets[key]["href"], so the key stands for it.                 *)
(***************************************************************************)
BandSpelling == {"B4", "B04", "red", "B11"}
AssetKey == {"B04", "red", "b04", "b4", "B11", "b11", "swir1", "swir16"}
Components == {"get_scene_tile", "create_imagery_mosaic", "calculate_spectral_index"}

\* str.lower() on the band names of the model
Lower(band) ==
    CASE band = "B4" -> "b4"
      [] band = "B04" -> "b04"
      [] band = "B11" -> "b11"
      [] OTHER -> band

\* band_asset_mapping.get(band, [band, band.lower()]) of get_scene_tile
TileBandAssetMapping(band) ==
    CASE band = "B4" -> <<"B04", "red">>
      [] band = "B04" -> <<"B04", "red">>
      [] band = "B11" -> <<"B11", "swir1", "swir16">>
      [] OTHER -> <<band, Lower(band)>>

\* the first name of the list that is a key of the assets, else "notfound"
RECURSIVE FirstPresent(_, _)
FirstPresent(names, assets) ==
    IF names = <<>> THEN "notfound"
    ELSE IF Head(names) \in assets THEN Head(names)
    ELSE FirstPresent(Tail(names), assets)

\* get_scene_tile: the mapped names, then the band name, then its lower case
TileResolve(band, assets) ==
    FirstPresent(TileBandAssetMapping(band) \o <<band, Lower(band)>>, assets)

\* create_imagery_mosaic: {...}.get(band, band.lower())
MosaicAssetName(band) ==
    CASE band = "B4" -> "red"
      [] band = "B11" -> "swir1"
      [] OTHER -> Lower(band)

MosaicResolve(band, assets) == FirstPresent(<<MosaicAssetName(band)>>, assets)

\* calculate_spectral_index: band_mapping.get(band, band.lower())
IndexBandMapping(band) ==
    CASE band = "B4" -> "red"
      [] band = "B11" -> "swir16"
      [] OTHER -> Lower(band)

IndexResolve(band, assets) == FirstPresent(<<IndexBandMapping(band)>>, assets)

ResolveTile ==
    /\ bdOut["get_scene_tile"] = "pending"
    /\ bdOut' = [bdOut EXCEPT !["get_scene_tile"] = TileResolve(bdBand, bdAssets)]
    /\ UNCHANGED <<bdAssets, bdBand>>
    /\ UNCHANGED nonBandVars

ResolveMosaic ==
    /\ bdOut["create_imagery_mosaic"] = "pending"
    /\ bdOut' = [bdOut EXCEPT !["create_imagery_mosaic"] = MosaicResolve(bdBand, bdAssets)]
    /\ UNCHANGED <<bdAssets, bdBand>>
    /\ UNCHANGED nonBandVars

ResolveIndex ==
    /\ bdOut["calculate_spectral_index"] = "pending"
    /\ bdOut' = [bdOut EXCEPT !["calculate_spectral_index"] = IndexResolve(bdBand, bdAssets)]
    /\ UNCHANGED <<bdAssets, bdBand>>
    /\ UNCHANGED nonBandVars

BandsIdle ==
    /\ bdAssets = {}
    /\ bdBand = "none"
    /\ bdOut = [c \in Components |-> "idle"]

(***************************************************************************)
(* Explicit rescale=min,max and the alpha channel of the tile paths, one   *)
(* pixel of a three-band tile.                                             *)
(***************************************************************************)
RawValue == {0, 4, 200}
RescaleRange == {<<0, 100>>, <<0 - 100, 100>>, <<100, 100>>, <<100, 0>>, <<0, 3000>>}

\* np.clip(n / d * 255, 0, 255).astype(np.uint8) for d # 0
ClipScale(n, d) ==
    LET num == IF d < 0 THEN 0 - n * 255 ELSE n * 255
        den == IF d < 0 THEN 0 - d ELSE d
    IN  IF num <= 0 THEN 0
        ELSE IF num \div den > 255 THEN 255 ELSE num \div den

\* np.clip((data - min_val) / (max_val - min_val) * 255, 0, 255).astype(uint8)
\* without a guard: for max_val = min_val numpy divides by 0.0 with a warning,
\* giving +inf, -inf or nan; the cast of nan to uint8 is undefined (nanCast).
Unguarded(v, range, nanCast) ==
    IF range[2] = range[1]
      THEN IF v > range[1] THEN 255 ELSE IF v < range[1] THEN 0 ELSE nanCast
      ELSE ClipScale(v - range[1], range[2] - range[1])

\* `if max_val > min_val: ... else: <fill>`
Guarded(v, range, fill) ==
    IF range[2] > range[1]
      THEN ClipScale(v - range[1], range[2] - range[1])
      ELSE fill

\* np.where(sum <= threshold, 0, 255)
Alpha(values, threshold) ==
    IF values[1] + values[2] + values[3] <= threshold THEN 0 ELSE 255

\* get_scene_tile: np.full_like(img_data, 128); alpha from original_sum <= 10
RescaleSceneTile ==
    /\ rcPath = "none"
    /\ rcPath' = "get_scene_tile"
    /\ rcOut' = [b \in 1..3 |-> Guarded(rcRaw[b], rcRange, 128)]
    /\ rcAlpha' = Alpha(rcRaw, 10)
    /\ rcDivZero' = FALSE
    /\ UNCHANGED <<rcRaw, rcRange>>
    /\ UNCHANGED nonRescaleVars

\* get_sentinel2_tile_fallback: no guard; alpha from original_sum <= 10
RescaleFallback(nanCast) ==
    /\ rcPath = "none"
    /\ rcPath' = "get_sentinel2_tile_fallback"
    /\ rcOut' = [b \in 1..3 |-> Unguarded(rcRaw[b], rcRange, nanCast)]
    /\ rcAlpha' = Alpha(rcRaw, 10)
    /\ rcDivZero' = (rcRange[2] = rcRange[1])
    /\ UNCHANGED <<rcRaw, rcRange>>
    /\ UNCHANGED nonRescaleVars

\* get_tile: np.zeros_like(data); alpha from the sum of the rescaled data <= 5
RescaleTile ==
    /\ rcPath = "none"
    /\ rcPath' = "get_tile"
    /\ rcOut' = [b \in 1..3 |-> Guarded(rcRaw[b], rcRange, 0)]
    /\ rcAlpha' = Alpha([b \in 1..3 |-> Guarded(rcRaw[b], rcRange, 0)], 5)
    /\ rcDivZero' = FALSE
    /\ UNCHANGED <<rcRaw, rcRange>>
    /\ UNCHANGED nonRescaleVars

\* get_sentinel2_tile: no guard; an RGB image, no alpha
RescaleSentinel2(nanCast) ==
    /\ rcPath = "none"
    /\ rcPath' = "get_sentinel2_tile"
    /\ rcOut' = [b \in 1..3 |-> Unguarded(rcRaw[b], rcRange, nanCast)]
    /\ rcAlpha' = None
    /\ rcDivZero' = (rcRange[2] = rcRange[1])
    /\ UNCHANGED <<rcRaw, rcRange>>
    /\ UNCHANGED nonRescaleVars

RescaleIdle ==
    /\ rcRaw = <<>>
    /\ rcRange = <<>>
    /\ rcPath = "idle"
    /\ rcOut = <<>>
    /\ rcAlpha = None
    /\ rcDivZero = FALSE

(***************************************************************************)
(* eval_band_math.  An expression is the set of names it refers to, whether *)
(* it takes an attribute of some object, and whether it parses.            *)
(***************************************************************************)
\* the keys of the `bands` argument, and the names an expression may use
SuppliedBands == {"B4"}
ExpressionName == {"B4", "B9", "abs", "max", "np", "bands", "open"}

\* safe_expr.replace(band_name, "bands['band_name']") for every supplied band
Substituted(names) ==
    (names \ SuppliedBands) \cup (IF names \cap SuppliedBands # {} THEN {"bands"} ELSE {})

\* the locals given to eval; globals are {"__builtins__": {}}
allowed_names == {"bands", "np", "abs", "min", "max"}

\* eval(safe_expr, {"__builtins__": {}}, allowed_names): a SyntaxError or a
\* NameError becomes ValueError("Invalid expression: ..."), else the value.
eval_band_math ==
    /\ exResult = "pending"
    /\ IF exWellFormed /\ Substituted(exNames) \subseteq allowed_names
         THEN /\ exResult' = "value"
              /\ exReached' = Substituted(exNames)
         ELSE /\ exResult' = "ValueError"
              /\ exReached' = Substituted(exNames) \cap allowed_names
    /\ UNCHANGED <<exNames, exAttribute, exWellFormed>>
    /\ UNCHANGED nonEvalVars

EvalIdle ==
    /\ exNames = {}
    /\ exAttribute = FALSE
    /\ exWellFormed = TRUE
    /\ exResult = "idle"
    /\ exReached = {}

(***************************************************************************)
(* DirectDownloadService.download_from_url.  A hostname is its sequence of *)
(* labels ("api.planet.com" is <<"api", "planet", "com">>).                *)
(***************************************************************************)
ALLOWED_DOMAINS ==
    {<<"planet", "com">>, <<"amazonaws", "com">>, <<"scihub", "copernicus", "eu">>}

Hostnames ==
    {<<>>, <<"planet", "com">>, <<"PLANET", "com">>, <<"api", "planet", "com">>,
     <<"a", "b", "planet", "com">>, <<"evil", "com">>, <<"xplanet", "com">>,
     <<"planet", "com", "evil", "com">>, <<"scihub", "copernicus", "eu">>,
     <<"x", "scihub", "copernicus", "eu">>, <<"copernicus", "eu">>,
     <<"", "planet", "com">>, <<"pl-cyrillic-a-net", "com">>}

AddressKind == {"public", "private", "loopback", "link_local"}

\* host.encode("idna").decode("ascii").lower(): an empty label raises; a
\* non-ASCII label becomes its punycode form; ASCII is lower-cased.
IdnaRaises(host) == \E i \in 1..Len(host) : host[i] = ""

IdnaLabel(label) ==
    CASE label = "PLANET" -> "planet"
      [] label = "pl-cyrillic-a-net" -> "xn--plnet-3ve"
      [] OTHER -> label

Idna(host) == [i \in 1..Len(host) |-> IdnaLabel(host[i])]

\* host.endswith("." + allowed)
EndsWithDot(host, allowed) ==
    /\ Len(host) > Len(allowed)
    /\ SubSeq(host, Len(host) - Len(allowed) + 1, Len(host)) = allowed

\* host.rsplit("." + allowed, 1)[0].split(".")
PartsBefore(host, allowed) == SubSeq(host, 1, Len(host) - Len(allowed))

is_allowed_domain_AnySubdomain(host) ==
    \E allowed \in ALLOWED_DOMAINS :
        Idna(host) = Idna(allowed) \/ EndsWithDot(Idna(host), Idna(allowed))

is_allowed_domain(host) ==
    \E allowed \in ALLOWED_DOMAINS :
        \/ Idna(host) = Idna(allowed)
        \/ /\ EndsWithDot(Idna(host), Idna(allowed))
           /\ Len(PartsBefore(Idna(host), Idna(allowed))) = 1
           /\ PartsBefore(Idna(host), Idna(allowed))[1] # ""

\* is_private or is_loopback or is_reserved or is_link_local or ...
Restricted(kind) == kind # "public"

Refuse(code) ==
    /\ ddResp' = code
    /\ ddPc' = "done"

\* urlparse: the scheme is http or https, there is a netloc and a hostname,
\* and the hostname is IDNA-encodable; else 400.
ValidateUrl ==
    /\ ddPc = "request"
    /\ IF ddScheme \notin {"http", "https"} \/ ddHost = <<>> \/ IdnaRaises(ddHost)
         THEN Refuse(400)
         ELSE ddPc' = "validated" /\ ddResp' = ddResp
    /\ UNCHANGED <<ddScheme, ddHost, ddInfos, ddFetches>>
    /\ UNCHANGED nonDirectVars

\* `if not is_allowed_domain(domain_ascii)`: 403.
CheckDomain ==
    /\ ddPc = "validated"
    /\ IF is_allowed_domain(Idna(ddHost))
         THEN ddPc' = "allowed" /\ ddResp' = ddResp
         ELSE Refuse(403)
    /\ UNCHANGED <<ddScheme, ddHost, ddInfos, ddFetches>>
    /\ UNCHANGED nonDirectVars

\* getaddrinfo and the check of every address: 403 when the resolution
\* raises, returns nothing, or returns a restricted address; else the
\* StreamingResponse is returned.
CheckAddresses ==
    /\ ddPc = "allowed"
    /\ IF \/ ~ddInfos.ok
          \/ ddInfos.addrs = {}
          \/ \E kind \in ddInfos.addrs : Restricted(kind)
         THEN Refuse(403)
         ELSE ddPc' = "resolved" /\ ddResp' = 200
    /\ UNCHANGED <<ddScheme, ddHost, ddInfos, ddFetches>>
    /\ UNCHANGED nonDirectVars

\* stream_from_url: client.stream("GET", image_url), follow_redirects=False.
StreamFromUrl ==
    /\ ddPc = "resolved"
    /\ ddPc' = "streaming"
    /\ ddFetches' = ddFetches + 1
    /\ UNCHANGED <<ddScheme, ddHost, ddInfos, ddResp>>
    /\ UNCHANGED nonDirectVars

\* The remote answers: the body is streamed, or raise_for_status raises (a
\* redirect is an answer like any other: no second request is sent).
StreamEnds(answer) ==
    /\ ddPc = "streaming"
    /\ ddPc' = IF answer = "ok" THEN "done" ELSE "broken"
    /\ UNCHANGED <<ddScheme, ddHost, ddInfos, ddResp, ddFetches>>
    /\ UNCHANGED nonDirectVars

DirectIdle ==
    /\ ddScheme = "none"
    /\ ddHost = <<>>
    /\ ddInfos = [ok |-> FALSE, addrs |-> {}]
    /\ ddPc = "idle"
    /\ ddResp = 0
    /\ ddFetches = 0

(***************************************************************************)
(* MosaicService.get_job_status.                                           *)
(***************************************************************************)
MosaicJobStatus == {"pending", "processing", "completed", "failed"}

\* The status of the MosaicJob returned; "not_found" when the method returns
\* None: the key is missing, or MosaicJobStatus(...) raises and the except
\* branch returns None.
MosaicGetJobStatus ==
    IF jobStatus = Absent THEN "not_found"
    ELSE IF jobStatus.status \notin MosaicJobStatus THEN "not_found"
    ELSE jobStatus.status

\* status_data.get("progress", 0) of the MosaicJob returned
MosaicGetProgress ==
    IF jobStatus.progress = None THEN 0 ELSE jobStatus.progress

(***************************************************************************)
(* calculate_spectral_index with index_type "custom" and an expression.    *)
(* The expression is the set of band names it refers to; no band name of   *)
(* the model is a substring of another one's replacement.                  *)
(***************************************************************************)
BandName == {"B2", "B3", "B4", "B8", "B11"}

\* band_requirements.get(index_type, ["B4", "B3", "B2"])
get_required_bands(index_type) ==
    CASE index_type = "ndvi" -> {"B4", "B8"}
      [] index_type = "ndwi" -> {"B3", "B8"}
      [] index_type = "ndbi" -> {"B8", "B11"}
      [] OTHER -> {"B4", "B3", "B2"}

\* The keys of bands_data: the mosaic branch reads {"B4", "B8"}; the scene
\* branch loads each required band that some scene has an asset for.
CustomLoad ==
    /\ cxPc = "queued"
    /\ cxLoaded' = IF cxSource = "mosaic" THEN {"B4", "B8"}
                   ELSE get_required_bands("custom") \cap cxAssets
    /\ cxPc' = "loaded"
    /\ UNCHANGED <<cxSource, cxNames, cxAssets>>
    /\ UNCHANGED nonCustomVars

\* "custom" is no key of index_formulas: eval_band_math(expression,
\* bands_data).  A name that is a key of bands_data is replaced by
\* bands['name']; any other band name stays a bare name, eval raises
\* NameError, eval_band_math ValueError, and the job is failed.
CustomEval ==
    /\ cxPc = "loaded"
    /\ cxPc' = IF cxNames \subseteq cxLoaded THEN "completed" ELSE "failed"
    /\ UNCHANGED <<cxSource, cxNames, cxAssets, cxLoaded>>
    /\ UNCHANGED nonCustomVars

CustomIdle ==
    /\ cxSource = "none"
    /\ cxNames = {}
    /\ cxAssets = {}
    /\ cxLoaded = {}
    /\ cxPc = "idle"

(***************************************************************************)
(* The projects router and ProjectManager.  A project id is a number.      *)
(***************************************************************************)
ProjectOps == {"create", "get", "list", "delete"}

NoProjectRequest == [op |-> "none", id |-> 0]
NoProjectAnswer == [code |-> 0, ids |-> {}]

\* ProjectManager.__init__: self.projects = {}
NewProjectManager == {}

\* Depends(get_project_manager): `return ProjectManager()`, once per request.
get_project_manager(op, id) ==
    /\ pjPc = "idle"
    /\ op = "create" => (id = pjNext + 1 /\ pjNext < MaxProjects)
    /\ op = "list" => id = 0
    /\ op \in {"get", "delete"} => id \in 1..pjNext
    /\ pjManager' = NewProjectManager
    /\ pjReq' = [op |-> op, id |-> id]
    /\ pjPc' = "handling"
    /\ UNCHANGED <<pjNext, pjLive, pjGone, pjResp>>
    /\ UNCHANGED nonProjectVars

\* create_project: project_manager.create_project(uuid4, data)
create_project ==
    /\ pjPc = "handling" /\ pjReq.op = "create"
    /\ pjManager' = pjManager \cup {pjReq.id}
    /\ pjNext' = pjNext + 1
    /\ pjLive' = pjLive \cup {pjReq.id}
    /\ pjResp' = [code |-> 200, ids |-> {pjReq.id}]
    /\ pjPc' = "idle"
    /\ UNCHANGED <<pjGone, pjReq>>
    /\ UNCHANGED nonProjectVars

\* get_project: 404 when project_manager.get_project(project_id) is None
get_project ==
    /\ pjPc = "handling" /\ pjReq.op = "get"
    /\ pjResp' = IF pjReq.id \in pjManager
                   THEN [code |-> 200, ids |-> {pjReq.id}]
                   ELSE [code |-> 404, ids |-> {}]
    /\ pjPc' = "idle"
    /\ UNCHANGED <<pjNext, pjLive, pjGone, pjManager, pjReq>>
    /\ UNCHANGED nonProjectVars

\* list_projects: project_manager.projects.items()
list_projects ==
    /\ pjPc = "handling" /\ pjReq.op = "list"
    /\ pjResp' = [code |-> 200, ids |-> pjManager]
    /\ pjPc' = "idle"
    /\ UNCHANGED <<pjNext, pjLive, pjGone, pjManager, pjReq>>
    /\ UNCHANGED nonProjectVars

\* delete_project: the key is deleted when present; always answers 200
delete_project ==
    /\ pjPc = "handling" /\ pjReq.op = "delete"
    /\ pjManager' = pjManager \ {pjReq.id}
    /\ pjLive' = pjLive \ {pjReq.id}
    /\ pjGone' = pjGone \cup {pjReq.id}
    /\ pjResp' = [code |-> 200, ids |-> {}]
    /\ pjPc' = "idle"
    /\ UNCHANGED <<pjNext, pjReq>>
    /\ UNCHANGED nonProjectVars

ProjectsIdle ==
    /\ pjNext = 0
    /\ pjLive = {}
    /\ pjGone = {}
    /\ pjManager = {}
    /\ pjReq = NoProjectRequest
    /\ pjResp = NoProjectAnswer
    /\ pjPc = "idle"

(***************************************************************************)
(* The ETag of get_scene_tile.  A string is the sequence of its parts      *)
(* between "-" characters, so that joining with "-" is concatenation.      *)
(***************************************************************************)
SceneIds == {<<"S2A_1">>, <<"S2A_1", "2">>}
TileCoordinate == {<<"1">>, <<"2">>}
BandParameter == {<<"B4,B3,B2">>, <<"B8,B4,B3">>}
RescaleParameter == {<<>>, <<"0,3000">>}
Collections == {<<"sentinel", "2", "l2a">>, <<"landsat", "c2", "l2">>}

TileRequest ==
    [scene_id : SceneIds, z : TileCoordinate, x : TileCoordinate, y : {<<"1">>},
     bands : BandParameter, rescale : RescaleParameter, collection : Collections]

\* f"{scene_id}-{z}-{x}-{y}-{bands}-{rescale or 'auto'}"; md5 is taken to be
\* one-to-one on these contents.
etag_content(req) ==
    req.scene_id \o req.z \o req.x \o req.y \o req.bands
        \o (IF req.rescale = <<>> THEN <<"auto">> ELSE req.rescale)

\* "Generate ETag for caching", for request r
SceneTileEtag(r) ==
    /\ etTag[r] = <<>>
    /\ etTag' = [etTag EXCEPT ![r] = etag_content(etReq[r])]
    /\ UNCHANGED etReq
    /\ UNCHANGED nonEtagVars

EtagIdle ==
    /\ etReq = <<>>
    /\ etTag = <<>>

(***************************************************************************)
(* get_job_status_endpoint (downloads router).                             *)
(***************************************************************************)
JobStatus == {"pending", "in_progress", "completed", "partial", "failed", "cancelled"}

\* The HTTP status of the answer: 404 for a missing record (also unknown to
\* the queue), 500 when JobStatus(...) raises ValueError, else 200.
get_job_status_endpoint ==
    IF jobStatus = Absent THEN 404
    ELSE IF jobStatus.status \notin JobStatus THEN 500
    ELSE 200

(***************************************************************************)
(* The arq queue and the worker entry point.                               *)
(***************************************************************************)
\* the first argument of every enqueue_job call of the API
EnqueuedTasks ==
    {"download_imagery", "process_imagery", "export_dataset",
     "create_batch_download", "create_imagery_mosaic"} \cup ProcessingKinds

\* WorkerConfig.functions
WorkerConfigFunctions ==
    {"download_imagery", "process_imagery", "export_dataset", "cleanup_old_downloads"}

\* pool.enqueue_job(name, ...)
EnqueueJob(name) ==
    /\ Len(wkQueue) + Cardinality(wkDone) + Cardinality(wkLost) < MaxQueued
    /\ wkQueue' = Append(wkQueue, name)
    /\ UNCHANGED <<wkDone, wkLost>>
    /\ UNCHANGED nonWorkerVars

\* The worker takes the oldest job: it runs the function registered under
\* the name, or ends the job as failed when no function has that name.
WorkerRunJob ==
    /\ wkQueue # <<>>
    /\ wkQueue' = Tail(wkQueue)
    /\ IF Head(wkQueue) \in WorkerConfigFunctions
         THEN wkDone' = wkDone \cup {Head(wkQueue)} /\ wkLost' = wkLost
         ELSE wkLost' = wkLost \cup {Head(wkQueue)} /\ wkDone' = wkDone
    /\ UNCHANGED nonWorkerVars

QueueIdle ==
    /\ wkQueue = <<>>
    /\ wkDone = {}
    /\ wkLost = {}

(***************************************************************************)
(* LayerManager.  A layer is its id.                                       *)
(***************************************************************************)
LayerIds == {"a", "b", "c"}
UnknownLayerId == "zz"

RECURSIVE SeqsUpTo(_, _)
\* the sequences over S of length n at most
SeqsUpTo(S, n) ==
    IF n = 0 THEN {<<>>}
    ELSE LET shorter == SeqsUpTo(S, n - 1)
         IN  shorter \cup {Append(q, x) : q \in shorter, x \in S}

\* [x for x in seq if Keep(x)]
SelectIds(seq, keep) == SelectSeq(seq, LAMBDA x : x \in keep)

RECURSIVE RemoveFirst(_, _)
\* list.remove(x): the first occurrence
RemoveFirst(seq, x) ==
    IF seq = <<>> THEN <<>>
    ELSE IF Head(seq) = x THEN Tail(seq)
    ELSE <<Head(seq)>> \o RemoveFirst(Tail(seq), x)

InSeq(seq, x) == \E k \in 1..Len(seq) : seq[k] = x

RECURSIVE OrderedLayers(_, _)
\* `for layer_id in self.layer_order`: the first stored layer with that id
OrderedLayers(order, layers) ==
    IF order = <<>> THEN <<>>
    ELSE IF InSeq(layers, Head(order))
           THEN <<Head(order)>> \o OrderedLayers(Tail(order), layers)
           ELSE OrderedLayers(Tail(order), layers)

RECURSIVE AppendMissing(_, _)
\* `for layer in self.layers: if layer not in ordered_layers: append`
AppendMissing(ordered, layers) ==
    IF layers = <<>> THEN ordered
    ELSE AppendMissing(IF InSeq(ordered, Head(layers)) THEN ordered
                       ELSE Append(ordered, Head(layers)),
                       Tail(layers))

ListLayers(layers, order) ==
    IF order # <<>> THEN AppendMissing(OrderedLayers(order, layers), layers)
    ELSE layers

\* (the order list keeps an id of a removed layer that was stored twice, so
\* its length is capped as well)
add_layer(id) ==
    /\ Len(lyLayers) < MaxLayers
    /\ Len(lyOrder) <= MaxLayers
    /\ lyLayers' = Append(lyLayers, id)
    /\ lyOrder' = Append(lyOrder, id)
    /\ lyFresh' = FALSE
    /\ UNCHANGED lyListed
    /\ UNCHANGED nonLayerVars

remove_layer(id) ==
    /\ lyLayers' = SelectIds(lyLayers, LayerIds \ {id})
    /\ lyOrder' = RemoveFirst(lyOrder, id)
    /\ lyFresh' = FALSE
    /\ UNCHANGED lyListed
    /\ UNCHANGED nonLayerVars

\* valid_order = [lid for lid in order if lid in existing_ids]
reorder_layers(order) ==
    /\ lyOrder' = SelectIds(order, {lyLayers[k] : k \in 1..Len(lyLayers)})
    /\ lyFresh' = FALSE
    /\ UNCHANGED <<lyLayers, lyListed>>
    /\ UNCHANGED nonLayerVars

list_layers ==
    /\ lyListed' = ListLayers(lyLayers, lyOrder)
    /\ lyFresh' = TRUE
    /\ UNCHANGED <<lyLayers, lyOrder>>
    /\ UNCHANGED nonLayerVars

LayersIdle ==
    /\ lyLayers = <<>>
    /\ lyOrder = <<>>
    /\ lyListed = <<>>
    /\ lyFresh = FALSE

(***************************************************************************)
(* Specifications.                                                         *)
(***************************************************************************)
CancelIdle ==
    /\ cancelPc = "idle"
    /\ cancelSeen = "none"
    /\ cancelResp = 0

WorkerIdle ==
    /\ wPc = "idle"
    /\ tPc = [i \in Urls |-> "wait"]
    /\ tSeen = [i \in Urls |-> 0]
    /\ tAttempts = [i \in Urls |-> 0]
    /\ errors = <<>>
    /\ returned = NoResult

\* No download job is followed.
DownloadIdle ==
    /\ nUrls = 0
    /\ apiPc = "idle"
    /\ WorkerIdle
    /\ CancelIdle

\* Every part of the program but the named one is at rest.
OthersIdle(part) ==
    /\ part # "download" => DownloadIdle
    /\ part # "jobs" => JobsIdle
    /\ part # "tile" => TileIdle
    /\ part # "pixel" => PixelIdle
    /\ part # "aggregate" => AggregateIdle
    /\ part # "bands" => BandsIdle
    /\ part # "rescale" => RescaleIdle
    /\ part # "eval" => EvalIdle
    /\ part # "direct" => DirectIdle
    /\ part # "custom" => CustomIdle
    /\ part # "projects" => ProjectsIdle
    /\ part # "etag" => EtagIdle
    /\ part # "worker" => QueueIdle
    /\ part # "layers" => LayersIdle

\* A download job from the request on: API handler, worker and cancel requests.
InitDownload ==
    /\ nUrls \in 0..MaxRaceUrls
    /\ apiPc = "idle"
    /\ jobStatus = Absent
    /\ procJob = AbsentJob
    /\ WorkerIdle
    /\ CancelIdle
    /\ OthersIdle("download")

WorkerNext ==
    \/ DownloadStart
    \/ \E i \in Urls : Acquire(i)
    \/ \E i \in Urls : FetchOk(i)
    \/ \E i \in Urls : FetchFail(i)
    \/ \E i \in Urls : WriteProgress(i)
    \/ DownloadFinish

NextDownload ==
    \/ QueueDownloadEnqueue
    \/ QueueDownloadSetPending
    \/ WorkerNext
    \/ CancelRead
    \/ \E aborted \in BOOLEAN : CancelAbort(aborted)

SpecDownload == InitDownload /\ [][NextDownload]_vars

\* download_imagery alone, started after queue_download has returned.
InitGather ==
    /\ nUrls \in 0..MaxUrls
    /\ apiPc = "done"
    /\ jobStatus = StatusValue("pending", Data(None, None, TRUE))
    /\ procJob = AbsentJob
    /\ WorkerIdle
    /\ CancelIdle
    /\ OthersIdle("download")

SpecGather == InitGather /\ [][WorkerNext]_vars

\* A processing or mosaic job from its creation on.
InitJobs ==
    /\ jKind \in ProcessingKinds \cup {MosaicKind}
    /\ jPc = "none"
    /\ nScenes \in 0..MaxScenes
    /\ nBands \in IF jKind = MosaicKind THEN 0..MaxBands ELSE {2, 3}
    /\ jIndex \in IF jKind = "calculate_spectral_index"
                  THEN {"builtin", "expression", "unknown"} ELSE {"builtin"}
    /\ jIter = 0
    /\ jIterCount = 0
    /\ jFound = 0
    /\ jGot = 0
    /\ jCancelReq = FALSE
    /\ pcCancel = "idle"
    /\ pcCancelSeen = AbsentJob
    /\ jFailedReads = 0
    /\ jError = "none"
    /\ jWritten = FALSE
    /\ jobStatus = Absent
    /\ procJob = AbsentJob
    /\ OthersIdle("jobs")

SceneOutcomes == {"found", "none", "raise"}
BandOutcomes == {"data", "nodata", "raise"}
MosaicBandOutcomes == {"data", "some", "failed", "absent"}

NextJobs ==
    \/ CreateJob
    \/ CreateMosaic
    \/ StubReturn
    \/ SimpleStart
    \/ SimpleFinish
    \/ SimpleFail
    \/ MosaicInit
    \/ \E outcome \in SceneOutcomes : MosaicFetchScene(outcome)
    \/ MosaicScenesDone
    \/ \E outcome \in MosaicBandOutcomes : MosaicBand(outcome)
    \/ MosaicBandsDone
    \/ \E ok \in BOOLEAN : MosaicSave(ok)
    \/ IndexInit
    \/ \E ok \in BOOLEAN : IndexLoad(ok)
    \/ \E outcome \in SceneOutcomes : IndexFetchScene(outcome)
    \/ IndexScenesDone
    \/ \E outcome \in BandOutcomes : IndexBand(outcome)
    \/ IndexCalc
    \/ \E evalOk \in BOOLEAN : IndexCompute(evalOk)
    \/ \E outcome \in {"ok", "open_raises", "later_raises"} : IndexSave(outcome)
    \/ ProcCancelRead
    \/ ProcCancelWrite
    \/ MosaicCancel

SpecJobs == InitJobs /\ [][NextJobs]_vars

\* A tile request, before any endpoint has answered it.
BandLists == UNION {[1..n -> BandOutcome] : n \in 1..3}

InitTile ==
    /\ rqPc = "request"
    /\ rqEndpoint = "none"
    /\ rqUrl \in BOOLEAN
    /\ rqScene \in {"found", "none", "raise"}
    /\ rqSentinel \in BOOLEAN
    /\ rqBands \in BandLists
    /\ rqRescale \in {"none", "ok", "degenerate", "malformed"}
    /\ rqIfNoneMatch \in IfNoneMatchValues
    /\ resp = NoResponse
    /\ jobStatus = Absent
    /\ procJob = AbsentJob
    /\ OthersIdle("tile")

NextTile ==
    \/ \E bucket \in [1..3 -> BOOLEAN] : get_scene_tile(bucket)
    \/ get_tile
    \/ get_sentinel2_tile

SpecTile == InitTile /\ [][NextTile]_vars

\* One pixel of one band of a mosaic, before the band's scene loop.
PixelLists == UNION {[1..n -> PixelValue \cup {None}] : n \in 0..MaxScenes}

InitPixel ==
    /\ pxValues \in PixelLists
    /\ pxStrategy \in MosaicStrategy
    /\ pxIter = 1
    /\ pxData = None
    /\ pxPc = "loop"
    /\ jobStatus = Absent
    /\ procJob = AbsentJob
    /\ OthersIdle("pixel")

NextPixel ==
    \/ MosaicPixelRead
    \/ MosaicPixelDone

SpecPixel == InitPixel /\ [][NextPixel]_vars

\* One pixel of one band across the scenes of an aggregation.
StackLists == UNION {[1..n -> StackValue] : n \in 0..MaxStack}

InitAggregate ==
    /\ agValues \in StackLists
    /\ agMethod \in AggregationMethod
    /\ agPath = "none"
    /\ agOut = NoNumber
    /\ agPc = "stacked"
    /\ jobStatus = Absent
    /\ procJob = AbsentJob
    /\ OthersIdle("aggregate")

NextAggregate ==
    \/ aggregate_scenes
    \/ IndexAggregate

SpecAggregate == InitAggregate /\ [][NextAggregate]_vars

\* A band name and a scene's asset keys, before any component resolved it.
InitBands ==
    /\ bdAssets \in SUBSET AssetKey
    /\ bdBand \in BandSpelling
    /\ bdOut = [c \in Components |-> "pending"]
    /\ jobStatus = Absent
    /\ procJob = AbsentJob
    /\ OthersIdle("bands")

NextBands ==
    \/ ResolveTile
    \/ ResolveMosaic
    \/ ResolveIndex

SpecBands == InitBands /\ [][NextBands]_vars

\* A pixel of a tile and an explicit rescale range, before rendering.
InitRescale ==
    /\ rcRaw \in [1..3 -> RawValue]
    /\ rcRange \in RescaleRange
    /\ rcPath = "none"
    /\ rcOut = <<>>
    /\ rcAlpha = None
    /\ rcDivZero = FALSE
    /\ jobStatus = Absent
    /\ procJob = AbsentJob
    /\ OthersIdle("rescale")

\* what the undefined cast of nan to uint8 may give
NanCasts == {0, 128, 255}

NextRescale ==
    \/ RescaleSceneTile
    \/ \E nanCast \in NanCasts : RescaleFallback(nanCast)
    \/ RescaleTile
    \/ \E nanCast \in NanCasts : RescaleSentinel2(nanCast)

SpecRescale == InitRescale /\ [][NextRescale]_vars

\* A custom expression, before it is evaluated.
InitEval ==
    /\ exNames \in SUBSET ExpressionName
    /\ exAttribute \in BOOLEAN
    /\ exWellFormed \in BOOLEAN
    /\ exResult = "pending"
    /\ exReached = {}
    /\ jobStatus = Absent
    /\ procJob = AbsentJob
    /\ OthersIdle("eval")

NextEval == eval_band_math

SpecEval == InitEval /\ [][NextEval]_vars

\* A direct download request and what the resolver will answer.
InitDirect ==
    /\ ddScheme \in {"http", "https", "ftp"}
    /\ ddHost \in Hostnames
    /\ ddInfos \in [ok : BOOLEAN, addrs : SUBSET AddressKind]
    /\ ddPc = "request"
    /\ ddResp = 0
    /\ ddFetches = 0
    /\ jobStatus = Absent
    /\ procJob = AbsentJob
    /\ OthersIdle("direct")

NextDirect ==
    \/ ValidateUrl
    \/ CheckDomain
    \/ CheckAddresses
    \/ StreamFromUrl
    \/ \E answer \in {"ok", "redirect", "error"} : StreamEnds(answer)

SpecDirect == InitDirect /\ [][NextDirect]_vars

\* A custom-index job: its input, its expression and the assets of its scenes.
InitCustom ==
    /\ cxSource \in {"scenes", "mosaic"}
    /\ cxNames \in SUBSET BandName \ {{}}
    /\ cxAssets \in SUBSET BandName
    /\ cxLoaded = {}
    /\ cxPc = "queued"
    /\ jobStatus = Absent
    /\ procJob = AbsentJob
    /\ OthersIdle("custom")

NextCustom ==
    \/ CustomLoad
    \/ CustomEval

SpecCustom == InitCustom /\ [][NextCustom]_vars

\* The application has just started: no project, no request.
InitProjects ==
    /\ ProjectsIdle
    /\ jobStatus = Absent
    /\ procJob = AbsentJob
    /\ OthersIdle("projects")

NextProjects ==
    \/ \E op \in ProjectOps : \E id \in 0..MaxProjects : get_project_manager(op, id)
    \/ create_project
    \/ get_project
    \/ list_projects
    \/ delete_project

SpecProjects == InitProjects /\ [][NextProjects]_vars

\* Two tile requests.
InitEtag ==
    /\ etReq \in [1..2 -> TileRequest]
    /\ etTag = [r \in 1..2 |-> <<>>]
    /\ jobStatus = Absent
    /\ procJob = AbsentJob
    /\ OthersIdle("etag")

NextEtag == \E r \in 1..2 : SceneTileEtag(r)

SpecEtag == InitEtag /\ [][NextEtag]_vars

\* The queue is empty and the worker runs.
InitWorker ==
    /\ QueueIdle
    /\ jobStatus = Absent
    /\ procJob = AbsentJob
    /\ OthersIdle("worker")

NextWorker ==
    \/ \E name \in EnqueuedTasks : EnqueueJob(name)
    \/ WorkerRunJob

SpecWorker == InitWorker /\ [][NextWorker]_vars

\* A new LayerManager.
InitLayers ==
    /\ LayersIdle
    /\ jobStatus = Absent
    /\ procJob = AbsentJob
    /\ OthersIdle("layers")

NextLayers ==
    \/ \E id \in LayerIds : add_layer(id)
    \/ \E id \in LayerIds : remove_layer(id)
    \/ \E order \in SeqsUpTo(LayerIds \cup {UnknownLayerId}, MaxLayers) :
          reorder_layers(order)
    \/ list_layers

SpecLayers == InitLayers /\ [][NextLayers]_vars

(***************************************************************************)
(* Claims about the download job.                                          *)
(***************************************************************************)
Started == {"in_progress", "completed", "partial", "failed"}
Finished == {"completed", "partial", "failed", "cancelled"}

\* C2: the job:status record of a download job goes pending -> in_progress ->
\* terminal under every interleaving of queue_download with the worker: it is
\* never pending again once an in_progress or terminal status was written,
\* and once the worker has finished (and the handler too, and nobody asked to
\* cancel) it holds the worker's terminal status.
C2_Lifecycle ==
    [][/\ jobStatus.status \in Started => jobStatus'.status # "pending"
       /\ (wPc' = "returned" /\ apiPc' = "done" /\ cancelPc' = "idle")
             => jobStatus'.status = returned'.status]_vars

NumOk == Cardinality({i \in Urls : tPc[i] = "ok"})

Occurrences(seq, x) == Cardinality({k \in 1..Len(seq) : seq[k] = x})

\* what C7 says of the result and the record, apart from the status per case
C7_Summary ==
    /\ jobStatus.status = returned.status
    /\ returned.total_requested = nUrls
    /\ returned.successful = Len(returned.results)
    /\ returned.failed = Len(returned.errors)
    /\ returned.successful + returned.failed = returned.total_requested
    /\ \A i \in Urls :
          Occurrences(returned.results, i) + Occurrences(returned.errors, i) = 1
    /\ \A i \in Urls : Occurrences(returned.results, i) = 1 <=> tPc[i] = "ok"

\* C7 as stated: completed when every url was downloaded, partial when some
\* but not all were, failed when none was, for every list of urls; the
\* returned status is the recorded one, successful + failed = total_requested
\* and every url has one entry in results or errors.
C7_Original ==
    wPc = "returned" =>
        /\ (NumOk = nUrls => returned.status = "completed")
        /\ (NumOk > 0 /\ NumOk < nUrls => returned.status = "partial")
        /\ (NumOk = 0 => returned.status = "failed")
        /\ C7_Summary

\* C7 (amended): as C7, with 'failed' when none was downloaded of a non-empty
\* list; the empty list ends 'completed'.
C7_FinalStatus ==
    wPc = "returned" =>
        /\ (NumOk = nUrls => returned.status = "completed")
        /\ (NumOk > 0 /\ NumOk < nUrls => returned.status = "partial")
        /\ (NumOk = 0 /\ nUrls > 0 => returned.status = "failed")
        /\ C7_Summary

C7_Witness ==
    /\ wPc = "returned"
    /\ nUrls >= 2
    /\ NumOk > 0
    /\ NumOk < nUrls
    /\ returned.status = "partial"

\* C8: at most 5 downloads of one job are in flight at any time, and every
\* url is attempted exactly once before the final status is written.
C8_BoundedConcurrency ==
    /\ InFlight <= 5
    /\ \A i \in Urls : tAttempts[i] <= 1
    /\ wPc = "returned" => \A i \in Urls : tAttempts[i] = 1

C8_Witness ==
    /\ InFlight = 5
    /\ \E i \in Urls : tPc[i] = "wait"

\* C9: cancel_job changes the record only for an unfinished job: a job that
\* is completed, partial, failed or cancelled is rejected and its record
\* left as it is; a pending or in-progress job whose abort succeeds becomes
\* cancelled; when the abort does not succeed the record is left as it is.
C9_CancelOnlyUnfinished ==
    [][(cancelPc # "done" /\ cancelPc' = "done") =>
          /\ cancelSeen' \in Finished =>
                (cancelResp' = 400 /\ jobStatus' = jobStatus)
          /\ (cancelSeen' \in {"pending", "in_progress"} /\ cancelResp' = 200)
                => jobStatus'.status = "cancelled"
          /\ cancelResp' # 200 => jobStatus' = jobStatus]_vars

\* C20: as long as the status record of the queued job is in the store,
\* list_jobs returns the job to the user who queued it, whatever the stage of
\* the job, and never to another user.
C20_OwnJobsListed ==
    /\ jobStatus # Absent => list_jobs("owner") = {"job"}
    /\ list_jobs("other") = {}

\* C24: while the record is in_progress its completed count never decreases,
\* and it is the number of downloads that have written their progress update.
C24_CompletedCounts ==
    [][(jobStatus.status = "in_progress" /\ jobStatus'.status = "in_progress") =>
          /\ jobStatus'.completed >= jobStatus.completed
          /\ jobStatus'.completed = Cardinality({i \in Urls : tPc'[i] = "ok"})]_vars

(***************************************************************************)
(* Claims about processing and mosaic jobs.                                *)
(***************************************************************************)
Terminal == {"completed", "partial", "failed"}

\* C1: when a task function has returned or raised, the job's status records
\* hold COMPLETED, PARTIAL or FAILED: job:status:{job_id}, and
\* processing_job:{job_id} when it exists (here for a job nobody cancelled).
C1_TerminalStatus ==
    (jPc \in {"returned", "raised"} /\ ~jCancelReq /\ pcCancel = "idle") =>
        /\ jobStatus.status \in Terminal
        /\ procJob # AbsentJob => procJob.status \in Terminal

\* C3: once a mosaic or processing job is cancelled its record stays
\* CANCELLED, and the worker starts no further per-scene / per-band iteration.
C3_CancelSticks ==
    [][/\ jobStatus.status = "cancelled" => jobStatus'.status = "cancelled"
       /\ procJob.status = "cancelled" => procJob'.status = "cancelled"
       /\ jCancelReq => jIterCount' = jIterCount]_vars

MultiSceneKinds == {MosaicKind, "calculate_spectral_index"}

\* the task is over, nobody cancelled, and nothing but band reads went wrong
EndedOnReads ==
    /\ jKind \in MultiSceneKinds
    /\ jPc \in {"returned", "raised"}
    /\ ~jCancelReq
    /\ pcCancel = "idle"
    /\ jError \in {"none", "read"}

\* C13: in calculate_spectral_index and create_imagery_mosaic a band read
\* that raises only drops that contribution: the job is FAILED only when no
\* band got data, PARTIAL when reads failed but some band got data, and
\* COMPLETED only when no read failed.
C13_PartialOnReadFailure ==
    EndedOnReads =>
        /\ jobStatus.status = "failed" => jGot = 0
        /\ (jFailedReads > 0 /\ jGot > 0) => jobStatus.status = "partial"
        /\ jobStatus.status = "completed" => jFailedReads = 0

\* failures that end the job before the index is computed
EarlierFailures == {"mkdir", "catalog", "no_input", "read"}

\* C14: a spectral-index job whose index type has no formula and that has
\* no expression is never COMPLETED, writes no raster, and ends FAILED, the
\* error naming the index type (unless an earlier step had already failed).
C14_UnknownIndexFails ==
    (jKind = "calculate_spectral_index" /\ jIndex = "unknown") =>
        /\ jobStatus.status # "completed"
        /\ procJob.status # "completed"
        /\ ~jWritten
        /\ jPc # "returned"
        /\ jPc = "raised" =>
              /\ jobStatus.status = "failed"
              /\ jError \notin EarlierFailures => jError = "unknown_index"

\* C14 as stated: the error of the failed job always names the index type.
C14_Original ==
    (jKind = "calculate_spectral_index" /\ jIndex = "unknown") =>
        /\ jobStatus.status # "completed"
        /\ ~jWritten
        /\ jPc # "returned"
        /\ jPc = "raised" =>
              jobStatus.status = "failed" /\ jError = "unknown_index"

C14_Witness ==
    /\ jKind = "calculate_spectral_index"
    /\ jIndex = "unknown"
    /\ jPc = "raised"
    /\ jGot = nBands
    /\ jError = "unknown_index"
    /\ jobStatus.status = "failed"

\* C21: once create_mosaic has returned, MosaicService.get_job_status finds
\* the job while it is queued or running, and reports it PENDING until the
\* worker starts it.
C21_MosaicJobFound ==
    (jKind = MosaicKind /\ jPc \notin {"none", "returned", "raised"}) =>
        /\ MosaicGetJobStatus # "not_found"
        /\ jPc = "queued" => MosaicGetJobStatus = "pending"

\* C26: whatever status value a writer stored under job:status:{job_id}, both
\* readers parse it: the downloads router answers 200 and
\* MosaicService.get_job_status finds the job.
C26_StatusValuesParsed ==
    jobStatus # Absent =>
        /\ get_job_status_endpoint = 200
        /\ MosaicGetJobStatus = jobStatus.status

\* C29: the progress a job reports never decreases and is 100 when the job
\* is reported COMPLETED: a mosaic job through MosaicService.get_job_status,
\* a processing job through its processing_job record.
C29_ProgressMonotone ==
    [][/\ (jKind = MosaicKind /\ MosaicGetJobStatus' # "not_found") =>
             /\ MosaicGetJobStatus # "not_found" =>
                   MosaicGetProgress' >= MosaicGetProgress
             /\ MosaicGetJobStatus' = "completed" => MosaicGetProgress' = 100
       /\ (jKind \in ProcessingKinds /\ procJob' # AbsentJob) =>
             /\ procJob # AbsentJob => procJob'.progress >= procJob.progress
             /\ procJob'.status = "completed" => procJob'.progress = 100]_vars

(***************************************************************************)
(* Claims about the tile endpoints.                                        *)
(***************************************************************************)
SceneTileAnswered ==
    /\ rqPc = "done"
    /\ rqEndpoint = "get_scene_tile"
    /\ ~rqUrl
    /\ rqScene = "found"
    /\ Len(rqBands) = 3

\* C4: get_scene_tile reads every requested band, puts a zero band in the
\* place of each band whose read failed, and returns the all-transparent tile
\* only when no band gave data, wherever in the list the failing band is.
C4_BandSubstitution ==
    (SceneTileAnswered /\ rqRescale # "malformed") =>
        /\ resp.reads = 3
        /\ resp.body = "transparent" => \A i \in 1..3 : rqBands[i] # "data"
        /\ resp.body = "image" =>
              resp.bands = [i \in 1..3 |->
                              IF rqBands[i] = "data" THEN "data" ELSE "zero"]

AllOutOfBounds == \A i \in 1..Len(rqBands) : rqBands[i] \in OutOfBounds

\* C5: every tile endpoint answers a three-band request whose tile is outside
\* the raster (every read signals it, in either wording) with 200 and the
\* all-transparent PNG.
C5_OutOfBoundsTile ==
    (/\ rqPc = "done"
     /\ Len(rqBands) = 3
     /\ AllOutOfBounds
     /\ rqEndpoint = "get_scene_tile" => SceneTileAnswered) =>
        /\ resp.code = 200
        /\ resp.body = "transparent"

\* C6: every 200 of get_scene_tile carries ETag and Cache-Control, and a
\* request whose If-None-Match equals the tile's ETag gets 304 without body
\* where it would have got 200.
C6_CacheHeaders ==
    (rqPc = "done" /\ rqEndpoint = "get_scene_tile") =>
        /\ resp.code = 200 => resp.etag /\ resp.cache
        /\ (Matches(rqIfNoneMatch) /\ resp.code \in {200, 304}) =>
              resp.code = 304 /\ resp.body = "none"

\* C25: two get_scene_tile requests with the same ETag have the same
\* scene_id, z, x, y, bands, rescale and collection.
C25_EtagIdentifiesRendering ==
    (etTag # <<>> /\ etTag[1] # <<>> /\ etTag[1] = etTag[2]) => etReq[1] = etReq[2]

(***************************************************************************)
(* Claims about the mosaic builder.                                        *)
(***************************************************************************)
NonZero(values) == SelectSeq(values, LAMBDA v : v # None /\ v # 0)

RECURSIVE SumSeq(_)
SumSeq(values) ==
    IF values = <<>> THEN 0 ELSE Head(values) + SumSeq(Tail(values))

SeqRange(values) == {values[i] : i \in 1..Len(values)}

\* The requested strategy over the non-zero values, in scene order.
Requested(strategy, values) ==
    CASE strategy = "first" -> values[1]
      [] strategy = "last" -> values[Len(values)]
      [] strategy = "mean" -> SumSeq(values) \div Len(values)
      [] strategy = "max" ->
           CHOOSE v \in SeqRange(values) : \A w \in SeqRange(values) : w <= v
      [] strategy = "min" ->
           CHOOSE v \in SeqRange(values) : \A w \in SeqRange(values) : v <= w

\* C10: the mosaic's pixel is the requested strategy (first, last, mean, max,
\* min) applied to the scenes' non-zero values in the caller's scene order.
C10_StrategyApplied ==
    (pxPc = "done" /\ NonZero(pxValues) # <<>>) =>
        pxData = Requested(pxStrategy, NonZero(pxValues))

(***************************************************************************)
(* Claims about the aggregation across scenes.                             *)
(***************************************************************************)
SameNumber(a, b) ==
    /\ a.root = b.root
    /\ a.den # 0
    /\ b.den # 0
    /\ a.num * b.den = b.num * a.den

Named(method, values) ==
    CASE method = "mean" -> Number(SumSeq(values), Len(values))
      [] method = "median" -> nanmedian(values)
      [] method = "max" -> Number(Requested("max", values), 1)
      [] method = "min" -> Number(Requested("min", values), 1)
      [] method = "std" -> nanstd(values)
      [] method = "first" -> Number(values[1], 1)
      [] method = "last" -> Number(values[Len(values)], 1)
      [] method = "count" -> Number(Len(values), 1)

\* C12: every aggregation method of the request enum gives the reduction it
\* names over the non-zero values, in both aggregating functions.
C12_MethodsAsNamed ==
    (agPc = "done" /\ NonZero(agValues) # <<>>) =>
        SameNumber(agOut, Named(agMethod, NonZero(agValues)))

(***************************************************************************)
(* Claims about band resolution.                                           *)
(***************************************************************************)
\* the alias table of the logical band a spelling belongs to, in table order
AliasTable(band) ==
    IF band \in {"B4", "B04", "red"} THEN <<"B04", "red">>
    ELSE <<"B11", "swir1", "swir16">>

\* C15: every component resolves every spelling of a band to the same asset:
\* the first alias in table order among the scene's asset keys, else not-found.
C15_SameResolution ==
    \A c \in Components :
        bdOut[c] \notin {"idle", "pending"} =>
            bdOut[c] = FirstPresent(AliasTable(bdBand), bdAssets)

(***************************************************************************)
(* Claims about rescaling and the alpha channel.                           *)
(***************************************************************************)
Rendered == rcPath \notin {"idle", "none"}

\* C16: in every tile path with an explicit rescale, a degenerate range
\* (max <= min) gives 128 in every band of every pixel and no division by
\* zero.
C16_DegenerateRange ==
    (Rendered /\ rcRange[2] <= rcRange[1]) =>
        /\ \A b \in 1..3 : rcOut[b] = 128
        /\ ~rcDivZero

\* C17: in every tile path with an alpha channel the alpha of a pixel comes
\* from its raw values only: a pixel that is raw zero in all bands is
\* transparent for every rescale range, and the alpha is the threshold of
\* the raw sum whatever the range.
C17_AlphaFromRaw ==
    (Rendered /\ rcAlpha # None) =>
        /\ (\A b \in 1..3 : rcRaw[b] = 0) => rcAlpha = 0
        /\ rcAlpha = Alpha(rcRaw, IF rcPath = "get_tile" THEN 5 ELSE 10)

(***************************************************************************)
(* Claims about custom expressions.                                        *)
(***************************************************************************)
\* C18: an expression that eval_band_math evaluates reaches only the band
\* arrays and abs, min, max, and no attribute of any object; a malformed
\* expression ends in an error.
C18_OnlyBandsAndFunctions ==
    /\ exResult = "value" =>
          /\ exReached \subseteq {"bands", "abs", "min", "max"}
          /\ ~exAttribute
    /\ (exResult \notin {"idle", "pending"} /\ ~exWellFormed) =>
          exResult = "ValueError"

\* C22: a custom-index job whose scenes have every band of its expression
\* loads every band the expression names before evaluating it, and completes.
C22_ExpressionBandsLoaded ==
    (cxPc \in {"completed", "failed"} /\ cxNames \subseteq cxAssets) =>
        /\ cxNames \subseteq cxLoaded
        /\ cxPc = "completed"

(***************************************************************************)
(* Claims about the direct download.                                       *)
(***************************************************************************)
\* an allowed domain, or one label in front of one (case-insensitively)
AllowedHost(host) ==
    \E allowed \in ALLOWED_DOMAINS :
        \/ Idna(host) = allowed
        \/ /\ Len(host) = Len(allowed) + 1
           /\ host[1] # ""
           /\ Tail(Idna(host)) = allowed

\* C19: download_from_url sends its request only for a host that passed the
\* allow-list and that resolved to public addresses only (at least one);
\* otherwise it refuses without any request; it sends one request at most,
\* so no redirect is followed.
C19_FetchOnlyAfterChecks ==
    /\ ddFetches > 0 =>
          /\ ddScheme \in {"http", "https"}
          /\ AllowedHost(ddHost)
          /\ ddInfos.ok
          /\ ddInfos.addrs = {"public"}
    /\ (/\ ddPc = "done"
        /\ ~AllowedHost(ddHost) \/ ~ddInfos.ok \/ ddInfos.addrs # {"public"}) =>
          /\ ddResp \in {400, 403}
          /\ ddFetches = 0
    /\ ddFetches <= 1

C19_Witness ==
    /\ ddHost = <<"api", "planet", "com">>
    /\ ddFetches = 1
    /\ ddPc = "broken"
    /\ ddResp = 200

(***************************************************************************)
(* Claims about projects.                                                  *)
(***************************************************************************)
\* C23: a get_project request for a project created and not deleted answers
\* 200, list_projects includes every such project, and get_project for a
\* deleted project answers 404.
C23_ProjectRetrievable ==
    pjPc = "idle" =>
        /\ (pjReq.op = "get" /\ pjReq.id \in pjLive) => pjResp.code = 200
        /\ (pjReq.op = "get" /\ pjReq.id \in pjGone) => pjResp.code = 404
        /\ pjReq.op = "list" => pjLive \subseteq pjResp.ids

(***************************************************************************)
(* Claims about the worker.                                                *)
(***************************************************************************)
\* C27: every task name the API enqueues is a function of WorkerConfig, so
\* no job taken by the worker ends without being executed.
C27_EnqueuedTasksRegistered == wkLost = {}

(***************************************************************************)
(* Claims about layers.                                                    *)
(***************************************************************************)
Count(seq, x) == Cardinality({k \in 1..Len(seq) : seq[k] = x})

\* C28: list_layers returns every stored layer as often as it is stored (no
\* layer twice, none missing), and the layers named in the order list come
\* first.
C28_EveryLayerOnce ==
    lyFresh =>
        /\ \A id \in LayerIds : Count(lyListed, id) = Count(lyLayers, id)
        /\ \A k \in 1..Len(lyListed) :
              (k > 1 /\ InSeq(lyOrder, lyListed[k])) => InSeq(lyOrder, lyListed[k - 1])

====
